---- MODULE Spec2Model ----
(***************************************************************************)
(* FrameStreamClient (services/api): one client instance, the WebSocket    *)
(* objects its connect() calls construct, the promises those calls return, *)
(* and the four consumer callbacks.  The consumer callbacks are recorders: *)
(* an invocation is logged and returns normally, and the consumer calls    *)
(* the client again only after the handler that invoked it has returned.   *)
(*                                                                         *)
(* The WebSocket itself is the platform's: its readyState, the exception   *)
(* send() raises while CONNECTING, the silent discard of send() while      *)
(* CLOSING or CLOSED, and the order "readyState changes, then the event    *)
(* handler runs" follow the WebSocket interface of the browser and of      *)
(* React Native.  Each step is one client operation or one handler run.    *)
(***************************************************************************)
EXTENDS Integers, Sequences, FiniteSets, TLC

\* Bounds of the exploration.
MaxConnects == 2   \* connect() calls on the instance
MaxIO == 2         \* messages transmitted plus inbound messages delivered
MaxSessionIO == 5  \* the same, in the single-connection session (SessionSpec)
MaxHealthChecks == 3  \* checkApiHealth calls of the App (AppSpec)
MaxSessions == 2  \* start presses of the camera screen (CameraSpec)
MaxCameraIO == 6  \* transport events, timer ticks and resumed captures of the camera screen
MaxInflight == 1  \* captureFrame calls in flight at once
MaxVideos == 3  \* videos picked in the upload screen (VideoSpec)

VARIABLES
    ws,         \* this.ws: Null, or the index in sockets of the referenced WebSocket
    sockets,    \* the WebSocket objects constructed so far, each with the promise
                \* of the connect() that made it: [readyState, closeFired, promise]
    thrown,     \* number of connect() calls whose new WebSocket(...) raised
    fired,      \* the consumer callbacks the last step invoked, with their arguments
    dispatched, \* the callbacks that inbound messages caused so far, in invocation order
    wire,       \* per socket, the messages handed to the network
    delivered,  \* number of inbound message events dispatched so far
    lastOp      \* the operation or event of the last step

\* The state of the frame stream client.
clientVars == <<ws, sockets, thrown, fired, dispatched, wire, delivered, lastOp>>

VARIABLES
    uploadIn,   \* ApiService.uploadVideo: the backend variant and the response of the
                \* prediction endpoint the call meets
    uploadOut   \* ApiService.uploadVideo: how the call ended (NotCalled before it)

uploadVars == <<uploadIn, uploadOut>>

VARIABLES
    backend,        \* which ApiService the App is built with: "gradio" or "local"
    apiHealthy,     \* App: the apiHealthy state (null, false, true)
    healthPending,  \* App: checkApiHealth calls awaiting ApiService.healthCheck
    healthStarted,  \* App: checkApiHealth calls made so far
    healthLast,     \* App: the response the last completed healthCheck met
    healthResult,   \* App: what that healthCheck returned or threw
    appOp           \* App: the last step

appVars == <<backend, apiHealthy, healthPending, healthStarted, healthLast, healthResult,
             appOp>>

VARIABLES
    streamState,    \* CameraStream: the streamState of the latest render
    streamClient,   \* CameraStream: streamClient.current, a client or Null
    frameInterval,  \* CameraStream: frameInterval.current, a timer or Null
    timers,         \* the capture timers that are set and not cleared
    clients,        \* the FrameStreamClients made so far, each with its transport
    streamWire,     \* per client, the messages its transport handed to the network
    capturing,      \* the captureFrame calls in flight
    cameraIO,       \* transport events, timer ticks and resumed captures so far
    mounted,        \* the screen is mounted
    camOp           \* CameraStream: the last step

cameraVars == <<streamState, streamClient, frameInterval, timers, clients, streamWire,
                capturing, cameraIO, mounted, camOp>>

VARIABLES
    uploading,      \* VideoUpload: the uploading state
    result,         \* VideoUpload: the result state
    error,          \* VideoUpload: the error state
    selectedFile,   \* VideoUpload: the video selected last, or Null
    picking,        \* VideoUpload: the file picker is open
    requests,       \* the videos whose ApiService.uploadVideo is outstanding
    videoOp         \* VideoUpload: the last step

videoVars == <<uploading, result, error, selectedFile, picking, requests, videoOp>>

VARIABLES
    throwing    \* the consumer of the client: its callbacks that throw when invoked

consumerVars == <<throwing>>

VARIABLES
    baseUrl,        \* API_CONFIG.BASE_URL, as the pieces of the string
    webSocketUrl    \* what getWebSocketUrl() returned (NotCalled before the call)

urlVars == <<baseUrl, webSocketUrl>>

vars == <<clientVars, uploadVars, appVars, cameraVars, videoVars, consumerVars, urlVars>>

\* private ws: WebSocket | null = null
Null == 0

----------------------------------------------------------------------------
\* JavaScript values, tagged so that any two of them can be compared.

Undefined == [tag |-> "undefined"]
JsNull == [tag |-> "null"]
JsNumber == [tag |-> "number"]
Str(s) == [tag |-> "string", text |-> s]
Prediction(class, hundredths) ==
    [tag |-> "object", predicted_class |-> class, confidence |-> hundredths]
Message(type, data, message) ==
    [tag |-> "object", type |-> type, data |-> data, message |-> message]

\* JavaScript truthiness, as used by `if (message.data)` and `message.message ||`.
Truthy(v) ==
    CASE v.tag = "undefined" -> FALSE
      [] v.tag = "null" -> FALSE
      [] v.tag = "string" -> v.text # ""
      [] OTHER -> TRUE

----------------------------------------------------------------------------
\* Inbound payloads (event.data) the transports may deliver.

RawWalking ==
    "{\"type\":\"prediction\",\"data\":{\"predicted_class\":\"walking\",\"confidence\":0.92}}"
RawRunningFinal ==
    "{\"type\":\"final\",\"data\":{\"predicted_class\":\"running\",\"confidence\":0.81}}"
RawPredictionNoData == "{\"type\":\"prediction\"}"
RawPredictionNullData == "{\"type\":\"prediction\",\"data\":null}"
RawFinalNoData == "{\"type\":\"final\"}"
RawErrorBoom == "{\"type\":\"error\",\"message\":\"boom\"}"
RawErrorNoMessage == "{\"type\":\"error\"}"
RawErrorEmptyMessage == "{\"type\":\"error\",\"message\":\"\"}"
RawAck == "{\"type\":\"ack\"}"
RawAckFull ==
    "{\"type\":\"ack\",\"message\":\"stored\",\"data\":{\"predicted_class\":\"walking\",\"confidence\":0.92}}"
RawOtherType == "{\"type\":\"status\"}"
RawNull == "null"
RawNumber == "42"
RawGarbage == "{type:prediction"

Payloads ==
    { RawWalking, RawRunningFinal, RawPredictionNoData, RawPredictionNullData,
      RawFinalNoData, RawErrorBoom, RawErrorNoMessage, RawErrorEmptyMessage,
      RawAck, RawAckFull, RawOtherType, RawNull, RawNumber, RawGarbage }

Walking == Prediction("walking", 92)
Running == Prediction("running", 81)

\* JSON.parse(event.data): [ok |-> TRUE, value |-> v], or [ok |-> FALSE] when it
\* throws a SyntaxError.
JsonParse(raw) ==
    CASE raw = RawWalking ->
            [ok |-> TRUE, value |-> Message(Str("prediction"), Walking, Undefined)]
      [] raw = RawRunningFinal ->
            [ok |-> TRUE, value |-> Message(Str("final"), Running, Undefined)]
      [] raw = RawPredictionNoData ->
            [ok |-> TRUE, value |-> Message(Str("prediction"), Undefined, Undefined)]
      [] raw = RawPredictionNullData ->
            [ok |-> TRUE, value |-> Message(Str("prediction"), JsNull, Undefined)]
      [] raw = RawFinalNoData ->
            [ok |-> TRUE, value |-> Message(Str("final"), Undefined, Undefined)]
      [] raw = RawErrorBoom ->
            [ok |-> TRUE, value |-> Message(Str("error"), Undefined, Str("boom"))]
      [] raw = RawErrorNoMessage ->
            [ok |-> TRUE, value |-> Message(Str("error"), Undefined, Undefined)]
      [] raw = RawErrorEmptyMessage ->
            [ok |-> TRUE, value |-> Message(Str("error"), Undefined, Str(""))]
      [] raw = RawAck ->
            [ok |-> TRUE, value |-> Message(Str("ack"), Undefined, Undefined)]
      [] raw = RawAckFull ->
            [ok |-> TRUE, value |-> Message(Str("ack"), Walking, Str("stored"))]
      [] raw = RawOtherType ->
            [ok |-> TRUE, value |-> Message(Str("status"), Undefined, Undefined)]
      [] raw = RawNull -> [ok |-> TRUE, value |-> JsNull]
      [] raw = RawNumber -> [ok |-> TRUE, value |-> JsNumber]
      [] OTHER -> [ok |-> FALSE]

----------------------------------------------------------------------------
\* Consumer callbacks and message dispatch.

Call(cb, arg) == [cb |-> cb, arg |-> arg]

\* Variant of Invoke that runs the newest callbacks ahead of the ones already made.
InvokeLifo(log, cs, n) ==
    [i \in 1..Len(cs) |-> [cb |-> cs[i].cb, seq |-> n]] \o log

\* `this.onX?.(arg)` for each call of cs in turn: the invocations join the log in the
\* order the handler makes them, each tagged with the number of the inbound message
\* whose dispatch made it.
Invoke(log, cs, n) ==
    log \o [i \in 1..Len(cs) |-> [cb |-> cs[i].cb, seq |-> n]]

\* Variant of HandleMessage without the `if (message.data)` tests.
HandleMessageIgnoresData(message) ==
    IF message.tag \in {"null", "undefined"} THEN [threw |-> TRUE, calls |-> <<>>]
    ELSE IF message.tag # "object" THEN [threw |-> FALSE, calls |-> <<>>]
    ELSE IF message.type \in {Str("prediction"), Str("final")}
         THEN [threw |-> FALSE, calls |-> <<Call("onPrediction", message.data)>>]
    ELSE IF message.type = Str("error")
         THEN [threw |-> FALSE,
               calls |-> <<Call("onError", IF Truthy(message.message)
                                            THEN message.message
                                            ELSE Str("Unknown error"))>>]
    ELSE [threw |-> FALSE, calls |-> <<>>]

\* Variant of HandleMessage whose `case 'final'` does nothing.
HandleMessageFinalIgnored(message) ==
    IF message.tag \in {"null", "undefined"} THEN [threw |-> TRUE, calls |-> <<>>]
    ELSE IF message.tag # "object" THEN [threw |-> FALSE, calls |-> <<>>]
    ELSE IF message.type = Str("prediction")
         THEN [threw |-> FALSE,
               calls |-> IF Truthy(message.data)
                         THEN <<Call("onPrediction", message.data)>>
                         ELSE <<>>]
    ELSE IF message.type = Str("error")
         THEN [threw |-> FALSE,
               calls |-> <<Call("onError", IF Truthy(message.message)
                                            THEN message.message
                                            ELSE Str("Unknown error"))>>]
    ELSE [threw |-> FALSE, calls |-> <<>>]

\* Variant of HandleMessage that passes message.message on without the
\* `|| 'Unknown error'` fallback.
HandleMessageNoFallback(message) ==
    IF message.tag \in {"null", "undefined"} THEN [threw |-> TRUE, calls |-> <<>>]
    ELSE IF message.tag # "object" THEN [threw |-> FALSE, calls |-> <<>>]
    ELSE IF message.type \in {Str("prediction"), Str("final")}
         THEN [threw |-> FALSE,
               calls |-> IF Truthy(message.data)
                         THEN <<Call("onPrediction", message.data)>>
                         ELSE <<>>]
    ELSE IF message.type = Str("error")
         THEN [threw |-> FALSE, calls |-> <<Call("onError", message.message)>>]
    ELSE [threw |-> FALSE, calls |-> <<>>]

\* Variant of HandleMessage whose `case 'ack'` shares the body of `case 'final'`.
HandleMessageAckAsFinal(message) ==
    IF message.tag \in {"null", "undefined"} THEN [threw |-> TRUE, calls |-> <<>>]
    ELSE IF message.tag # "object" THEN [threw |-> FALSE, calls |-> <<>>]
    ELSE IF message.type \in {Str("prediction"), Str("final"), Str("ack")}
         THEN [threw |-> FALSE,
               calls |-> IF Truthy(message.data)
                         THEN <<Call("onPrediction", message.data)>>
                         ELSE <<>>]
    ELSE IF message.type = Str("error")
         THEN [threw |-> FALSE,
               calls |-> <<Call("onError", IF Truthy(message.message)
                                            THEN message.message
                                            ELSE Str("Unknown error"))>>]
    ELSE [threw |-> FALSE, calls |-> <<>>]

\* handleMessage(message): the callbacks it invokes, and whether it raises (reading
\* `.type` of null raises a TypeError; of a number or string it is undefined and no
\* case of the switch matches).
HandleMessage(message) ==
    IF message.tag \in {"null", "undefined"} THEN [threw |-> TRUE, calls |-> <<>>]
    ELSE IF message.tag # "object" THEN [threw |-> FALSE, calls |-> <<>>]
    ELSE CASE message.type = Str("prediction") ->
                [threw |-> FALSE,
                 calls |-> IF Truthy(message.data)
                           THEN <<Call("onPrediction", message.data)>>
                           ELSE <<>>]
           [] message.type = Str("error") ->
                [threw |-> FALSE,
                 calls |-> <<Call("onError", IF Truthy(message.message)
                                              THEN message.message
                                              ELSE Str("Unknown error"))>>]
           [] message.type = Str("final") ->
                [threw |-> FALSE,
                 calls |-> IF Truthy(message.data)
                           THEN <<Call("onPrediction", message.data)>>
                           ELSE <<>>]
           [] message.type = Str("ack") -> [threw |-> FALSE, calls |-> <<>>]
           [] OTHER -> [threw |-> FALSE, calls |-> <<>>]

\* Variant of OnMessageCalls whose catch reports nothing.
OnMessageCallsSwallow(raw) ==
    LET parsed == JsonParse(raw) IN
    IF ~parsed.ok THEN <<>> ELSE HandleMessage(parsed.value).calls

\* ws.onmessage: JSON.parse, then handleMessage, both inside one try; the catch
\* reports the fixed reason.
OnMessageCalls(raw) ==
    LET parsed == JsonParse(raw) IN
    IF ~parsed.ok
    THEN <<Call("onError", Str("Failed to parse server message"))>>
    ELSE LET r == HandleMessage(parsed.value) IN
         IF r.threw
         THEN r.calls \o <<Call("onError", Str("Failed to parse server message"))>>
         ELSE r.calls

\* The callbacks the message handler invokes.
MessageCallbacks == {"onPrediction", "onError"}

\* A consumer none of whose callbacks throws.
ConsumerReturns == throwing = {}

\* Variant of OnMessageRun without the try: an exception of a callback or of
\* handleMessage leaves the handler and nothing is reported.
OnMessageRunUncaught(raw, thr) ==
    LET parsed == JsonParse(raw)
        r == IF parsed.ok THEN HandleMessage(parsed.value)
             ELSE [threw |-> TRUE, calls |-> <<>>]
    IN  [calls |-> r.calls,
         propagated |-> r.threw \/ \E i \in DOMAIN r.calls : r.calls[i].cb \in thr]

\* ws.onmessage with a consumer whose callbacks in thr throw: a callback that throws
\* inside the try ends it like any other exception and the catch reports the fixed
\* reason; an exception raised by the callback of the catch leaves the handler
\* (handleMessage makes at most one call, so none is skipped by a throw). With no
\* callback that throws, the run is the one of OnMessageCalls and nothing propagates.
OnMessageRun(raw, thr) ==
    IF thr = {} THEN [calls |-> OnMessageCalls(raw), propagated |-> FALSE]
    ELSE
    LET parsed == JsonParse(raw)
        r == IF parsed.ok THEN HandleMessage(parsed.value)
             ELSE [threw |-> TRUE, calls |-> <<>>]
        callbackThrew == \E i \in DOMAIN r.calls : r.calls[i].cb \in thr
    IN  IF callbackThrew
        THEN [calls |-> r.calls \o <<Call("onError", Str("Failed to parse server message"))>>,
              propagated |-> "onError" \in thr]
        ELSE [calls |-> OnMessageCalls(raw),
              propagated |-> r.threw /\ "onError" \in thr]

----------------------------------------------------------------------------
\* The platform's WebSocket and Promise.

\* WebSocket.close(): CONNECTING and OPEN become CLOSING; otherwise nothing happens.
AfterClose(readyState) ==
    IF readyState \in {"CONNECTING", "OPEN"} THEN "CLOSING" ELSE readyState

\* Variant of Settle in which a later resolve() or reject() replaces the outcome.
SettleOverwrites(state, outcome) == outcome

\* resolve() / reject() on a promise: it settles once, later calls are ignored.
Settle(state, outcome) == IF state = "pending" THEN outcome ELSE state

\* A WebSocket message, outbound or inbound: binary bytes or text.
Binary(bytes) == [kind |-> "binary", body |-> bytes]
Text(s) == [kind |-> "text", body |-> s]
NoData == [kind |-> "none", body |-> ""]

\* The step just taken: the operation or event, the socket it concerned (for a client
\* operation, this.ws as the call found it), the message it carried, and whether the
\* operation raised.
Op(name, t, data, threw) == [name |-> name, sock |-> t, data |-> data, threw |-> threw]

----------------------------------------------------------------------------
\* Outbound messages.

\* jpegBytes: the frame is opaque to the client, one value stands for any.
Frames == {"jpeg"}
ControlTypes == {"start", "end"}

\* Variant of JsonStringifyControl that sends the bare kind, not an object.
JsonStringifyBare(type) == type

\* JSON.stringify({ type })
JsonStringifyControl(type) ==
    CASE type = "start" -> "{\"type\":\"start\"}"
      [] type = "end" -> "{\"type\":\"end\"}"

----------------------------------------------------------------------------
\* ApiService.uploadVideo.

\* The call has not been made.
NotCalled == [tag |-> "not called"]

\* No upload is under way: the state of this part wherever it plays no role.
UploadIdle == uploadIn = NotCalled /\ uploadOut = NotCalled

\* How an async function ends.
Returned(v) == [tag |-> "returned", value |-> v]
Threw(e) == [tag |-> "threw", error |-> e]

\* The text the Gradio backend answers with, by the lines the three patterns look
\* for: what follows "**Predicted Activity**: ", "**Confidence**: " and
\* "**Class ID**: " up to the end of the line, or NoLine where the text has no such
\* marker.
Line(t) == [present |-> TRUE, text |-> t]
NoLine == [present |-> FALSE, text |-> ""]
ResultText(activity, confidence, classId) ==
    [tag |-> "string", activity |-> activity, confidence |-> confidence,
     classId |-> classId]

ActivityLines == {NoLine, Line("Walking"), Line(" Running "), Line("")}
ConfidenceLines == {NoLine, Line("92.5%"), Line("81%"), Line("0.92")}
ClassIdLines == {NoLine, Line("3"), Line("12"), Line("n/a")}

ResultTexts ==
    { ResultText(a, c, k) : a \in ActivityLines, c \in ConfidenceLines, k \in ClassIdLines }

\* resultText.match(/\*\*Predicted Activity\*\*: ([^\n]+)/): at least one character
\* must follow the marker.
ActivityMatch(text) == text.activity.present /\ text.activity.text # ""

\* resultText.match(/\*\*Confidence\*\*: ([\d.]+%)/): digits and dots, then a percent sign.
ConfidenceMatch(text) ==
    text.confidence.present /\ text.confidence.text \in {"92.5%", "81%"}

\* resultText.match(/\*\*Class ID\*\*: (\d+)/): at least one digit.
ClassIdMatch(text) == text.classId.present /\ text.classId.text \in {"3", "12"}

\* activityMatch[1].trim()
Trim(t) == IF t = " Running " THEN "Running" ELSE t

\* parseFloat(confidenceMatch[1].replace('%', '')) / 100, in thousandths.
ParseConfidence(t) ==
    CASE t = "92.5%" -> 925
      [] t = "81%" -> 810

\* parseInt(classIdMatch[1])
ParseInt(t) ==
    CASE t = "3" -> 3
      [] t = "12" -> 12

\* The fallback result: activity 'Unknown', confidence 0.5, class id 0, raw text.
RawResponse(resultText) ==
    [activity |-> "Unknown", confidence |-> 500, class_id |-> 0,
     raw_response |-> resultText]

\* Variant of ParseResultText that extracts as soon as the activity marker matches
\* and fills in the default for each of the other two that does not.
ParseResultTextActivityOnly(resultText) ==
    IF resultText.tag # "string" THEN RawResponse(resultText)
    ELSE IF ActivityMatch(resultText)
         THEN [activity |-> Trim(resultText.activity.text),
               confidence |-> IF ConfidenceMatch(resultText)
                              THEN ParseConfidence(resultText.confidence.text)
                              ELSE 500,
               class_id |-> IF ClassIdMatch(resultText)
                            THEN ParseInt(resultText.classId.text)
                            ELSE 0]
    ELSE RawResponse(resultText)

\* The try block and the fallback behind it: the three matches, the extracted result
\* when all three matched, the fallback otherwise (also when resultText is no string
\* and .match raises inside the try).
ParseResultText(resultText) ==
    IF resultText.tag # "string" THEN RawResponse(resultText)
    ELSE IF ActivityMatch(resultText) /\ ConfidenceMatch(resultText)
            /\ ClassIdMatch(resultText)
         THEN [activity |-> Trim(resultText.activity.text),
               confidence |-> ParseConfidence(resultText.confidence.text),
               class_id |-> ParseInt(resultText.classId.text)]
    ELSE RawResponse(resultText)

\* Response bodies.  A body is JSON text (json TRUE, with the value it parses to) or
\* other text, such as a proxy's error page.
JsonBody(v) == [json |-> TRUE, value |-> v]
NotJsonBody == [json |-> FALSE, value |-> Str("Internal Server Error")]

\* { data: [...] }, the Gradio envelope, and an envelope without data.
GradioResponse(items) == [tag |-> "object", hasData |-> TRUE, data |-> items]
GradioNoData == [tag |-> "object", hasData |-> FALSE, data |-> <<>>]

GradioBodies ==
    { JsonBody(GradioResponse(<<t>>)) : t \in ResultTexts }
    \cup { JsonBody(GradioResponse(<<JsNumber>>)), JsonBody(GradioResponse(<<>>)),
           JsonBody(GradioNoData), JsonBody(JsNull), NotJsonBody }

\* The local backend answers with the prediction itself.
LocalPrediction ==
    [tag |-> "object", predicted_class |-> "walking", confidence |-> 920,
     video_path |-> "uploads/a.mp4"]
LocalBodies ==
    { JsonBody(LocalPrediction), JsonBody([tag |-> "object", detail |-> "bad video"]),
      NotJsonBody }

Statuses == {200, 201, 299, 300, 404, 500}

\* response.ok
ResponseOk(status) == status >= 200 /\ status <= 299

\* A response of the prediction endpoint; readable: whether response.text() delivers
\* the body or rejects because the connection broke while it was read.
Response(status, body, readable) == [status |-> status, body |-> body, readable |-> readable]

\* Variant of UploadFailed whose message leaves the body out.
UploadFailedNoDetail(status, text) ==
    [name |-> "Error", message |-> "Upload failed", status |-> status,
     text |-> Str("")]

\* new Error(`Upload failed (${response.status}): ${text}`)
UploadFailed(status, text) ==
    [name |-> "Error", message |-> "Upload failed", status |-> status, text |-> text]

\* The `if (!response.ok)` block, shared by the two variants: what it throws.
NotOkOutcome(response) ==
    IF response.readable
    THEN Threw(UploadFailed(response.status, response.body))
    ELSE Threw([name |-> "TypeError", message |-> "network error"])

\* Variant of UploadVideoGradio that answers an envelope without data items with the
\* 'Unknown' fallback result.
UploadVideoGradioFallback(response) ==
    IF ~ResponseOk(response.status) THEN NotOkOutcome(response)
    ELSE IF ~response.body.json
         THEN Threw([name |-> "SyntaxError", message |-> "not JSON"])
    ELSE LET gradioResponse == response.body.value IN
         IF gradioResponse.tag = "null"
         THEN Threw([name |-> "TypeError", message |-> "reading 'data' of null"])
         ELSE IF gradioResponse.hasData /\ Len(gradioResponse.data) > 0
              THEN Returned(ParseResultText(gradioResponse.data[1]))
         ELSE Returned(RawResponse(Undefined))

\* uploadVideo of the Gradio variant, from the response on.
UploadVideoGradio(response) ==
    IF ~ResponseOk(response.status) THEN NotOkOutcome(response)
    ELSE IF ~response.body.json
         THEN Threw([name |-> "SyntaxError", message |-> "not JSON"])
    ELSE LET gradioResponse == response.body.value IN
         IF gradioResponse.tag = "null"
         THEN Threw([name |-> "TypeError", message |-> "reading 'data' of null"])
         ELSE IF gradioResponse.hasData /\ Len(gradioResponse.data) > 0
              THEN Returned(ParseResultText(gradioResponse.data[1]))
         ELSE Threw([name |-> "Error",
                     message |-> "Invalid response format from Gradio API"])

\* uploadVideo of the local variant, from the response on.
UploadVideoLocal(response) ==
    IF ~ResponseOk(response.status) THEN NotOkOutcome(response)
    ELSE IF ~response.body.json
         THEN Threw([name |-> "SyntaxError", message |-> "not JSON"])
    ELSE Returned(response.body.value)

UploadInputs ==
    { [variant |-> "gradio", response |-> Response(s, b, r)] :
        s \in Statuses, b \in GradioBodies, r \in BOOLEAN }
    \cup { [variant |-> "local", response |-> Response(s, b, r)] :
             s \in Statuses, b \in LocalBodies, r \in BOOLEAN }

CallUploadVideoGradio ==
    /\ uploadIn.variant = "gradio"
    /\ uploadOut = NotCalled
    /\ uploadOut' = UploadVideoGradio(uploadIn.response)
    /\ UNCHANGED uploadIn

CallUploadVideoLocal ==
    /\ uploadIn.variant = "local"
    /\ uploadOut = NotCalled
    /\ uploadOut' = UploadVideoLocal(uploadIn.response)
    /\ UNCHANGED uploadIn

----------------------------------------------------------------------------
\* ApiService.healthCheck and the App's start screen.

JsBool(b) == [tag |-> "boolean", value |-> b]

\* The texts the Gradio health function may answer with.
HealthTexts ==
    { "Status: healthy, Model loaded: true", "Status: healthy, Model loaded: false",
      "Status: unhealthy, Model loaded: false", "Status: unhealthy, Model loaded: true",
      "" }

\* healthText.includes('healthy'): 'unhealthy' contains it as well.
IncludesHealthy(t) == t # ""

\* healthText.includes('Model loaded: true')
IncludesModelLoadedTrue(t) ==
    t \in { "Status: healthy, Model loaded: true",
            "Status: unhealthy, Model loaded: true" }

\* The answers of the health endpoint: the fetch fails (no response), or a response.
FetchFailed == [failed |-> TRUE, status |-> 0, body |-> NotJsonBody]
HealthResponse(status, body) == [failed |-> FALSE, status |-> status, body |-> body]

GradioHealthBodies ==
    { JsonBody(GradioResponse(<<Str(t)>>)) : t \in HealthTexts }
    \cup { JsonBody(GradioResponse(<<JsNumber>>)), JsonBody(GradioResponse(<<>>)),
           JsonBody(GradioNoData), NotJsonBody }

\* { status, model_loaded } as the local backend declares it.
LocalHealth(status, loaded) ==
    [tag |-> "object", status |-> status, model_loaded |-> JsBool(loaded)]
LocalHealthBodies ==
    { JsonBody(LocalHealth("healthy", TRUE)), JsonBody(LocalHealth("healthy", FALSE)),
      NotJsonBody }

HealthStatuses == {200, 204, 404, 503}

HealthAnswers(variant) ==
    {FetchFailed}
    \cup { HealthResponse(s, b) :
             s \in HealthStatuses,
             b \in IF variant = "gradio" THEN GradioHealthBodies ELSE LocalHealthBodies }

\* Variant of HealthCheckGradio that takes the model for loaded when the text says
\* 'healthy'.
HealthCheckGradioByStatus(answer) ==
    IF answer.failed THEN Threw([name |-> "TypeError", message |-> "network error"])
    ELSE IF ~ResponseOk(answer.status)
         THEN Threw([name |-> "Error", message |-> "Health check failed"])
    ELSE IF ~answer.body.json
         THEN Threw([name |-> "SyntaxError", message |-> "not JSON"])
    ELSE LET gradioResponse == answer.body.value IN
         IF gradioResponse.hasData /\ Len(gradioResponse.data) > 0
         THEN LET healthText == gradioResponse.data[1] IN
              IF healthText.tag # "string"
              THEN Threw([name |-> "TypeError", message |-> "includes is not a function"])
              ELSE Returned([status |-> IF IncludesHealthy(healthText.text)
                                        THEN "healthy" ELSE "unhealthy",
                             model_loaded |-> JsBool(IncludesHealthy(healthText.text))])
         ELSE Returned([status |-> "unknown", model_loaded |-> JsBool(FALSE)])

\* healthCheck of the Gradio variant.
HealthCheckGradio(answer) ==
    IF answer.failed THEN Threw([name |-> "TypeError", message |-> "network error"])
    ELSE IF ~ResponseOk(answer.status)
         THEN Threw([name |-> "Error", message |-> "Health check failed"])
    ELSE IF ~answer.body.json
         THEN Threw([name |-> "SyntaxError", message |-> "not JSON"])
    ELSE LET gradioResponse == answer.body.value IN
         IF gradioResponse.hasData /\ Len(gradioResponse.data) > 0
         THEN LET healthText == gradioResponse.data[1] IN
              IF healthText.tag # "string"
              THEN Threw([name |-> "TypeError", message |-> "includes is not a function"])
              ELSE Returned([status |-> IF IncludesHealthy(healthText.text)
                                        THEN "healthy" ELSE "unhealthy",
                             model_loaded |->
                                 JsBool(IncludesModelLoadedTrue(healthText.text))])
         ELSE Returned([status |-> "unknown", model_loaded |-> JsBool(FALSE)])

\* healthCheck of the local variant.
HealthCheckLocal(answer) ==
    IF answer.failed THEN Threw([name |-> "TypeError", message |-> "network error"])
    ELSE IF ~ResponseOk(answer.status)
         THEN Threw([name |-> "Error", message |-> "API health check failed"])
    ELSE IF ~answer.body.json
         THEN Threw([name |-> "SyntaxError", message |-> "not JSON"])
    ELSE Returned([status |-> answer.body.value.status,
                   model_loaded |-> answer.body.value.model_loaded])

HealthCheck(variant, answer) ==
    IF variant = "gradio" THEN HealthCheckGradio(answer) ELSE HealthCheckLocal(answer)

\* What the App renders for a value of apiHealthy.
Screen(healthy) ==
    IF healthy = JsNull THEN "loading"
    ELSE IF healthy = JsBool(FALSE) THEN "unavailable"
    ELSE "upload"

\* The App is not under study: the state of this part wherever it plays no role.
AppIdle ==
    /\ backend = "gradio"
    /\ apiHealthy = JsNull
    /\ healthPending = 0
    /\ healthStarted = 0
    /\ healthLast = NotCalled
    /\ healthResult = NotCalled
    /\ appOp = "none"

\* The App is mounted: useState(null), and the mount effect has called
\* checkApiHealth.
AppMounted ==
    /\ backend \in {"gradio", "local"}
    /\ apiHealthy = JsNull
    /\ healthPending = 1
    /\ healthStarted = 1
    /\ healthLast = NotCalled
    /\ healthResult = NotCalled
    /\ appOp = "mount"

\* The retry button, which only the unavailable screen has: onPress={checkApiHealth}.
PressRetry ==
    /\ Screen(apiHealthy) = "unavailable"
    /\ healthStarted < MaxHealthChecks
    /\ healthPending' = healthPending + 1
    /\ healthStarted' = healthStarted + 1
    /\ appOp' = "retry"
    /\ UNCHANGED <<backend, apiHealthy, healthLast, healthResult>>

\* A pending checkApiHealth resumes: healthCheck met this answer.
CheckApiHealthResumes(answer) ==
    /\ healthPending > 0
    /\ healthResult' = HealthCheck(backend, answer)
    /\ apiHealthy' = IF healthResult'.tag = "threw" THEN JsBool(FALSE)
                     ELSE healthResult'.value.model_loaded
    /\ healthPending' = healthPending - 1
    /\ healthLast' = answer
    /\ appOp' = "health"
    /\ UNCHANGED <<backend, healthStarted>>

----------------------------------------------------------------------------
\* The client.

ClientInit ==
    /\ ws = Null
    /\ sockets = <<>>
    /\ thrown = 0
    /\ fired = <<>>
    /\ dispatched = <<>>
    /\ wire = <<>>
    /\ delivered = 0
    /\ lastOp = Op("new", Null, NoData, FALSE)

\* get isConnected(): this.ws?.readyState === WebSocket.OPEN
IsConnected == ws # Null /\ sockets[ws].readyState = "OPEN"

\* Variants of CanSend: one that only checks that a socket is referenced, one that
\* compares readyState with the wrong constant.
CanSendAnyState == ws # Null
CanSendWhileConnecting == ws # Null /\ sockets[ws].readyState = "CONNECTING"

\* The guard of sendFrame and sendControl: this.ws?.readyState === WebSocket.OPEN
CanSend == ws # Null /\ sockets[ws].readyState = "OPEN"

\* Number of messages handed to the network so far, over all sockets.
RECURSIVE TotalLen(_)
TotalLen(seqs) == IF seqs = <<>> THEN 0 ELSE Len(Head(seqs)) + TotalLen(Tail(seqs))
Transmitted == TotalLen(wire)

\* WebSocket.send on a socket in the given readyState: it raises InvalidStateError
\* while CONNECTING, hands the message to the network while OPEN, and discards it
\* silently while CLOSING or CLOSED.
SendOutcome(readyState) ==
    CASE readyState = "CONNECTING" -> "InvalidStateError"
      [] readyState = "OPEN" -> "sent"
      [] OTHER -> "discarded"

\* Variant of SendIfOpen in which the newest message overtakes the ones already
\* handed to the network.
SendIfOpenOvertaking(name, m) ==
    LET outcome == IF CanSend THEN SendOutcome(sockets[ws].readyState) ELSE "skipped" IN
    /\ wire' = IF outcome = "sent" THEN [wire EXCEPT ![ws] = <<m>> \o @] ELSE wire
    /\ fired' = <<>>
    /\ lastOp' = Op(name, ws, m, outcome = "InvalidStateError")
    /\ UNCHANGED <<ws, sockets, thrown, dispatched, delivered>>

\* if (this.ws?.readyState === WebSocket.OPEN) { this.ws.send(m); }
SendIfOpen(name, m) ==
    LET outcome == IF CanSend THEN SendOutcome(sockets[ws].readyState) ELSE "skipped" IN
    /\ wire' = IF outcome = "sent" THEN [wire EXCEPT ![ws] = Append(@, m)] ELSE wire
    /\ fired' = <<>>
    /\ lastOp' = Op(name, ws, m, outcome = "InvalidStateError")
    /\ UNCHANGED <<ws, sockets, thrown, dispatched, delivered>>

\* A sendFrame or sendControl call, within the bound on traffic.
Send(name, m) ==
    /\ Transmitted + delivered < MaxIO
    /\ SendIfOpen(name, m)

\* sendFrame(jpegBytes)
SendFrame(jpegBytes) == Send("sendFrame", Binary(jpegBytes))

\* sendControl(type)
SendControl(type) == Send("sendControl", Text(JsonStringifyControl(type)))

\* connect(): new WebSocket(...) succeeds; the four handlers are attached and the
\* promise is pending.
Connect ==
    /\ Len(sockets) + thrown < MaxConnects
    /\ sockets' = Append(sockets, [readyState |-> "CONNECTING", closeFired |-> FALSE,
                                    promise |-> "pending"])
    /\ wire' = Append(wire, <<>>)
    /\ ws' = Len(sockets) + 1
    /\ lastOp' = Op("connect", Len(sockets) + 1, NoData, FALSE)
    /\ fired' = <<>>
    /\ UNCHANGED <<thrown, dispatched, delivered>>

\* Variant of ConnectThrows whose catch also reports through the error callback.
ConnectThrowsReporting ==
    /\ Len(sockets) + thrown < MaxConnects
    /\ thrown' = thrown + 1
    /\ lastOp' = Op("connect", Null, NoData, FALSE)
    /\ fired' = <<Call("onError", Str("Connection error"))>>
    /\ UNCHANGED <<ws, sockets, wire, dispatched, delivered>>

\* connect(): new WebSocket(...) raises (a SecurityError for an insecure endpoint on
\* a secure page, a ReferenceError where no WebSocket exists); the catch rejects.
ConnectThrows ==
    /\ Len(sockets) + thrown < MaxConnects
    /\ thrown' = thrown + 1
    /\ lastOp' = Op("connect", Null, NoData, FALSE)
    /\ fired' = <<>>
    /\ UNCHANGED <<ws, sockets, wire, dispatched, delivered>>

\* Variant of AfterDisconnect without the `if (this.ws)` test: this.ws.close() on
\* null raises a TypeError.
AfterDisconnectNoGuard(ref, socks) ==
    IF ref # Null
    THEN [ws |-> Null,
          sockets |-> [socks EXCEPT ![ref].readyState = AfterClose(@)],
          threw |-> FALSE]
    ELSE [ws |-> ref, sockets |-> socks, threw |-> TRUE]

\* disconnect(), as a function of this.ws and the sockets: what it leaves in them
\* and whether it raises.
AfterDisconnect(ref, socks) ==
    IF ref # Null
    THEN [ws |-> Null,
          sockets |-> [socks EXCEPT ![ref].readyState = AfterClose(@)],
          threw |-> FALSE]
    ELSE [ws |-> ref, sockets |-> socks, threw |-> FALSE]

\* disconnect()
Disconnect ==
    LET r == AfterDisconnect(ws, sockets) IN
    /\ ws' = r.ws
    /\ sockets' = r.sockets
    /\ lastOp' = Op("disconnect", ws, NoData, r.threw)
    /\ fired' = <<>>
    /\ UNCHANGED <<thrown, dispatched, wire, delivered>>

\* Variant of SocketOpen whose handler resolves without invoking the callback.
SocketOpenSilent(t) ==
    /\ sockets[t].readyState = "CONNECTING"
    /\ sockets' = [sockets EXCEPT ![t].readyState = "OPEN",
                                   ![t].promise = Settle(@, "fulfilled")]
    /\ fired' = <<>>
    /\ lastOp' = Op("open", t, NoData, FALSE)
    /\ UNCHANGED <<ws, thrown, dispatched, wire, delivered>>

\* ws.onopen of socket t: the transport reports open.
SocketOpen(t) ==
    /\ sockets[t].readyState = "CONNECTING"
    /\ sockets' = [sockets EXCEPT ![t].readyState = "OPEN",
                                   ![t].promise = Settle(@, "fulfilled")]
    /\ fired' = <<Call("onConnected", Undefined)>>
    /\ lastOp' = Op("open", t, NoData, FALSE)
    /\ UNCHANGED <<ws, thrown, dispatched, wire, delivered>>

\* ws.onmessage of socket t.  The browser delivers messages only while OPEN; React
\* Native also dispatches the ones that arrive after close() was called (CLOSING).
OnMessage(t, raw) ==
    /\ sockets[t].readyState \in {"OPEN", "CLOSING"}
    /\ delivered' = delivered + 1
    /\ fired' = OnMessageRun(raw, throwing).calls
    /\ dispatched' = Invoke(dispatched, fired', delivered + 1)
    /\ lastOp' = Op("message", t, Text(raw), OnMessageRun(raw, throwing).propagated)
    /\ UNCHANGED <<ws, sockets, thrown, wire>>

\* An inbound message event of socket t, within the bound on traffic.
SocketMessage(t, raw) ==
    /\ Transmitted + delivered < MaxIO
    /\ OnMessage(t, raw)

\* Variant of SocketError whose handler reports the error but never calls reject().
SocketErrorNoReject(t) ==
    /\ sockets[t].readyState \in {"CONNECTING", "OPEN", "CLOSING"}
    /\ sockets' = [sockets EXCEPT ![t].readyState = "CLOSED"]
    /\ fired' = <<Call("onError", Str("Connection error"))>>
    /\ lastOp' = Op("error", t, NoData, FALSE)
    /\ UNCHANGED <<ws, thrown, dispatched, wire, delivered>>

\* Variant of SocketError whose handler retries: it constructs a new WebSocket and
\* makes it the referenced one.
SocketErrorReconnects(t) ==
    /\ sockets[t].readyState \in {"CONNECTING", "OPEN", "CLOSING"}
    /\ sockets' = Append([sockets EXCEPT ![t].readyState = "CLOSED",
                                          ![t].promise = Settle(@, "rejected")],
                         [readyState |-> "CONNECTING", closeFired |-> FALSE,
                          promise |-> "pending"])
    /\ wire' = Append(wire, <<>>)
    /\ ws' = Len(sockets) + 1
    /\ fired' = <<Call("onError", Str("Connection error"))>>
    /\ lastOp' = Op("error", t, NoData, FALSE)
    /\ UNCHANGED <<thrown, dispatched, delivered>>

\* ws.onerror of socket t: the connection failed; readyState is CLOSED when the
\* handler runs, and the close event follows.
SocketError(t) ==
    /\ sockets[t].readyState \in {"CONNECTING", "OPEN", "CLOSING"}
    /\ sockets' = [sockets EXCEPT ![t].readyState = "CLOSED",
                                   ![t].promise = Settle(@, "rejected")]
    /\ fired' = <<Call("onError", Str("Connection error"))>>
    /\ lastOp' = Op("error", t, NoData, FALSE)
    /\ UNCHANGED <<ws, thrown, dispatched, wire, delivered>>

\* Variant of RefAfterClose that clears this.ws only when it still refers to t.
RefAfterCloseIfCurrent(t) == IF ws = t THEN Null ELSE ws

\* What ws.onclose of socket t leaves in this.ws: this.ws = null
RefAfterClose(t) == Null

\* ws.onclose of socket t: after an error, a close by the peer, or the completion of
\* a close() of disconnect().  Each socket fires it once.
SocketClose(t) ==
    /\ \/ sockets[t].readyState \in {"OPEN", "CLOSING"}
       \/ sockets[t].readyState = "CLOSED" /\ ~sockets[t].closeFired
    /\ sockets' = [sockets EXCEPT ![t].readyState = "CLOSED", ![t].closeFired = TRUE]
    /\ fired' = <<Call("onDisconnected", Undefined)>>
    /\ ws' = RefAfterClose(t)
    /\ lastOp' = Op("close", t, NoData, FALSE)
    /\ UNCHANGED <<thrown, dispatched, wire, delivered>>

\* The camera screen (CameraStream), shown with the camera permission granted.  Every
\* start press makes a FrameStreamClient of its own, which connects once: client i has
\* one transport, and streamWire[i] is what that transport handed to the network.

\* useState<CameraStreamState>({ ... })
InitialStreamState ==
    [isRecording |-> FALSE, isConnected |-> FALSE, frameCount |-> 0,
     lastPrediction |-> Undefined]

\* The camera screen's state as one value, for the functions below.
Cam ==
    [streamState |-> streamState, streamClient |-> streamClient,
     frameInterval |-> frameInterval, timers |-> timers, clients |-> clients,
     streamWire |-> streamWire, mounted |-> mounted]

\* The step leaves the camera screen in state s.
Becomes(s) ==
    /\ streamState' = s.streamState
    /\ streamClient' = s.streamClient
    /\ frameInterval' = s.frameInterval
    /\ timers' = s.timers
    /\ clients' = s.clients
    /\ streamWire' = s.streamWire
    /\ mounted' = s.mounted

\* setStreamState(next): React ignores state updates of an unmounted component.
SetStreamState(s, next) ==
    IF s.mounted THEN [s EXCEPT !.streamState = next] ELSE s

\* A client made by initializeStream, after its connect(): this.ws refers to the new
\* transport.  `render` is what the stopStreaming that its onError callback calls reads
\* of the streamState of its render, the render whose initializeStream made the client.
NewClient(render) ==
    [ws |-> TRUE, readyState |-> "CONNECTING", closeFired |-> FALSE,
     promise |-> "pending", render |-> [lastPrediction |-> render.lastPrediction]]

\* get isConnected() of a client
ClientIsConnected(c) == c.ws /\ c.readyState = "OPEN"

\* sendFrame / sendControl of client i:
\* if (this.ws?.readyState === WebSocket.OPEN) { this.ws.send(m); }
ClientSend(s, i, m) ==
    IF ClientIsConnected(s.clients[i]) /\ SendOutcome(s.clients[i].readyState) = "sent"
    THEN [s EXCEPT !.streamWire[i] = Append(@, m)]
    ELSE s

\* disconnect() of client i
ClientDisconnect(s, i) ==
    IF s.clients[i].ws
    THEN [s EXCEPT !.clients[i].readyState = AfterClose(@), !.clients[i].ws = FALSE]
    ELSE s

\* stopStreaming(), called from a closure of the render whose streamState is `render`.
StopStreaming(s, render) ==
    LET cleared == IF s.frameInterval # Null
                   THEN [s EXCEPT !.timers = @ \ {s.frameInterval},
                                  !.frameInterval = Null]
                   ELSE s
        ended == IF cleared.streamClient # Null
                 THEN ClientSend(cleared, cleared.streamClient,
                                 Text(JsonStringifyControl("end")))
                 ELSE cleared
        closed == IF ended.streamClient # Null
                  THEN ClientDisconnect(ended, ended.streamClient)
                  ELSE ended
        released == [closed EXCEPT !.streamClient = Null]
    IN  SetStreamState(released,
                       [isRecording |-> FALSE, isConnected |-> FALSE, frameCount |-> 0,
                        lastPrediction |-> render.lastPrediction])

\* Variant of StreamCallback whose onError only shows the alert.
StreamCallbackErrorAlertsOnly(s, i, call) ==
    CASE call.cb = "onPrediction" ->
             SetStreamState(s, [s.streamState EXCEPT !.lastPrediction = call.arg])
      [] call.cb = "onError" -> s
      [] call.cb = "onConnected" ->
             SetStreamState(s, [s.streamState EXCEPT !.isConnected = TRUE])
      [] call.cb = "onDisconnected" ->
             SetStreamState(s, [s.streamState EXCEPT !.isConnected = FALSE,
                                                     !.isRecording = FALSE])

\* The four callbacks initializeStream gives to client i.
StreamCallback(s, i, call) ==
    CASE call.cb = "onPrediction" ->
             SetStreamState(s, [s.streamState EXCEPT !.lastPrediction = call.arg])
      [] call.cb = "onError" -> StopStreaming(s, s.clients[i].render)
      [] call.cb = "onConnected" ->
             SetStreamState(s, [s.streamState EXCEPT !.isConnected = TRUE])
      [] call.cb = "onDisconnected" ->
             SetStreamState(s, [s.streamState EXCEPT !.isConnected = FALSE,
                                                     !.isRecording = FALSE])

\* The callbacks a handler of client i invokes, in turn.
RECURSIVE StreamCallbacks(_, _, _)
StreamCallbacks(s, i, calls) ==
    IF calls = <<>> THEN s
    ELSE StreamCallbacks(StreamCallback(s, i, Head(calls)), i, Tail(calls))

\* Variant of StartStreamingResumes that sets the timer without sending 'start'.
StartStreamingResumesNoStart(s, i) ==
    LET recording == SetStreamState(s, [s.streamState EXCEPT
                                            !.isRecording = TRUE, !.frameCount = 0,
                                            !.lastPrediction = Undefined])
    IN  [recording EXCEPT !.timers = @ \cup {i}, !.frameInterval = i]

\* startStreaming after `await initializeStream()` returned true for the connect() of
\* client i: 'start' goes to the client the screen holds now, and a new timer is set;
\* the timer is named after the client whose start press set it.
StartStreamingResumes(s, i) ==
    LET started == IF s.streamClient # Null
                   THEN ClientSend(s, s.streamClient,
                                   Text(JsonStringifyControl("start")))
                   ELSE s
        recording == SetStreamState(started,
                                    [started.streamState EXCEPT
                                         !.isRecording = TRUE, !.frameCount = 0,
                                         !.lastPrediction = Undefined])
    IN  [recording EXCEPT !.timers = @ \cup {i}, !.frameInterval = i]

\* The step just taken in the camera screen: its name, the client whose transport or
\* start press it concerns (for a stop and for a capture, the client the screen held),
\* for a capture the client the screen held when the capture began, and for a message
\* its text.
CamOp(name, i, origin, raw) ==
    [name |-> name, client |-> i, origin |-> origin, raw |-> raw]

\* The camera screen is not under study: the state of this part wherever it plays no
\* role.
CameraIdle ==
    /\ streamState = InitialStreamState
    /\ streamClient = Null
    /\ frameInterval = Null
    /\ timers = {}
    /\ clients = <<>>
    /\ streamWire = <<>>
    /\ capturing = <<>>
    /\ cameraIO = 0
    /\ mounted = FALSE
    /\ camOp = CamOp("none", Null, Null, "")

\* The camera screen after its first render.
CameraMounted ==
    /\ streamState = InitialStreamState
    /\ streamClient = Null
    /\ frameInterval = Null
    /\ timers = {}
    /\ clients = <<>>
    /\ streamWire = <<>>
    /\ capturing = <<>>
    /\ cameraIO = 0
    /\ mounted = TRUE
    /\ camOp = CamOp("mount", Null, Null, "")

\* The payloads the streaming server sends to the camera screen.
StreamPayloads == {RawWalking, RawRunningFinal, RawErrorBoom, RawGarbage}

\* The record button while it shows start: startStreaming up to
\* `await streamClient.current.connect()`.
PressStart ==
    /\ mounted
    /\ ~streamState.isRecording
    /\ Len(clients) < MaxSessions
    /\ clients' = Append(clients, NewClient(streamState))
    /\ streamWire' = Append(streamWire, <<>>)
    /\ streamClient' = Len(clients) + 1
    /\ camOp' = CamOp("start", Len(clients) + 1, Null, "")
    /\ UNCHANGED <<streamState, frameInterval, timers, capturing, cameraIO, mounted>>

\* The record button while it shows stop: stopStreaming of the current render.
PressStop ==
    /\ mounted
    /\ streamState.isRecording
    /\ Becomes(StopStreaming(Cam, streamState))
    /\ camOp' = CamOp("stop", streamClient, Null, "")
    /\ UNCHANGED <<capturing, cameraIO>>

\* The screen is unmounted: the cleanup of the mount effect calls the stopStreaming
\* of the first render.
Unmount ==
    /\ mounted
    /\ Becomes(StopStreaming([Cam EXCEPT !.mounted = FALSE], InitialStreamState))
    /\ camOp' = CamOp("unmount", streamClient, Null, "")
    /\ UNCHANGED <<capturing, cameraIO>>

\* ws.onopen of client i: onConnected, resolve(); the awaits of initializeStream and
\* startStreaming resume in the microtasks that follow the handler.
TransportOpen(i) ==
    /\ clients[i].readyState = "CONNECTING"
    /\ LET opened == [Cam EXCEPT !.clients[i].readyState = "OPEN",
                                 !.clients[i].promise = Settle(@, "fulfilled")]
           called == StreamCallbacks(opened, i, <<Call("onConnected", Undefined)>>)
       IN  Becomes(IF clients[i].promise = "pending"
                   THEN StartStreamingResumes(called, i)
                   ELSE called)
    /\ camOp' = CamOp("open", i, Null, "")
    /\ cameraIO < MaxCameraIO
    /\ cameraIO' = cameraIO + 1
    /\ UNCHANGED capturing

\* ws.onmessage of client i
TransportMessage(i, raw) ==
    /\ clients[i].readyState \in {"OPEN", "CLOSING"}
    /\ cameraIO < MaxCameraIO
    /\ cameraIO' = cameraIO + 1
    /\ Becomes(StreamCallbacks(Cam, i, OnMessageCalls(raw)))
    /\ camOp' = CamOp("message", i, Null, raw)
    /\ UNCHANGED capturing

\* ws.onerror of client i: onError, reject(); a pending initializeStream catches the
\* rejection and startStreaming returns.
TransportError(i) ==
    /\ clients[i].readyState \in {"CONNECTING", "OPEN", "CLOSING"}
    /\ LET failed == [Cam EXCEPT !.clients[i].readyState = "CLOSED",
                                 !.clients[i].promise = Settle(@, "rejected")]
       IN  Becomes(StreamCallbacks(failed, i,
                                   <<Call("onError", Str("Connection error"))>>))
    /\ camOp' = CamOp("error", i, Null, "")
    /\ cameraIO < MaxCameraIO
    /\ cameraIO' = cameraIO + 1
    /\ UNCHANGED capturing

\* ws.onclose of client i: this.ws = null, onDisconnected.
TransportClose(i) ==
    /\ \/ clients[i].readyState \in {"OPEN", "CLOSING"}
       \/ clients[i].readyState = "CLOSED" /\ ~clients[i].closeFired
    /\ LET closed == [Cam EXCEPT !.clients[i].readyState = "CLOSED",
                                 !.clients[i].closeFired = TRUE,
                                 !.clients[i].ws = FALSE]
       IN  Becomes(StreamCallbacks(closed, i, <<Call("onDisconnected", Undefined)>>))
    /\ camOp' = CamOp("close", i, Null, "")
    /\ cameraIO < MaxCameraIO
    /\ cameraIO' = cameraIO + 1
    /\ UNCHANGED capturing

\* A capture timer fires: captureFrame up to `await takePictureAsync(...)`.  The camera
\* view, and with it cameraRef.current, exists while the screen is mounted.
TimerFires(t) ==
    /\ t \in timers
    /\ cameraIO < MaxCameraIO
    /\ Len(capturing) < MaxInflight
    /\ cameraIO' = cameraIO + 1
    /\ capturing' = IF /\ mounted
                       /\ streamClient # Null
                       /\ ClientIsConnected(clients[streamClient])
                    THEN Append(capturing, streamClient)
                    ELSE capturing
    /\ camOp' = CamOp("tick", t, streamClient, "")
    /\ UNCHANGED <<streamState, streamClient, frameInterval, timers, clients,
                   streamWire, mounted>>

\* A captureFrame in flight resumes after its awaits.  The picture was taken and read
\* (ok), or one of the awaits rejected and the catch logs it.  sendFrame is called on
\* the client the screen holds now; on null it raises a TypeError, which the catch
\* logs as well.
CaptureResumes(k, ok) ==
    /\ k \in DOMAIN capturing
    /\ capturing' = SubSeq(capturing, 1, k - 1) \o SubSeq(capturing, k + 1, Len(capturing))
    /\ Becomes(IF ok /\ streamClient # Null
               THEN LET sent == ClientSend(Cam, streamClient, Binary("jpeg")) IN
                    SetStreamState(sent, [sent.streamState EXCEPT !.frameCount = @ + 1])
               ELSE Cam)
    /\ camOp' = CamOp(IF ok THEN "frame" ELSE "capture failed", streamClient,
                      capturing[k], "")
    /\ cameraIO < MaxCameraIO
    /\ cameraIO' = cameraIO + 1

----------------------------------------------------------------------------
\* The upload screen (VideoUpload).  Videos are numbered in the order they are
\* picked; `result` carries, next to the response, the number of the video the
\* response was computed for.

\* What ApiService.uploadVideo may end with in the screen: results and failures of
\* both kinds, and a fetch that rejects.
UploadOutcomes ==
    { UploadVideoGradio(Response(s, b, TRUE)) :
        s \in {200, 500},
        b \in { JsonBody(GradioResponse(<<ResultText(Line("Walking"), Line("92.5%"),
                                                      Line("3"))>>)),
               JsonBody(GradioResponse(<<ResultText(NoLine, NoLine, NoLine)>>)),
               JsonBody(GradioResponse(<<>>)) } }
    \cup { Threw([name |-> "TypeError", message |-> "Network request failed"]) }

\* typeof e?.message === 'string' ? e.message : 'Failed to analyze video. ...'
ErrorMessage(e) ==
    IF "message" \in DOMAIN e
    THEN IF "status" \in DOMAIN e
         THEN [tag |-> "string", text |-> e.message, status |-> e.status,
               body |-> e.text]
         ELSE Str(e.message)
    ELSE Str("Failed to analyze video. Please check your connection and try again.")

\* The errors the video preview and the play button report.
PreviewErrors ==
    { Str("Failed to load video preview"), Str("Video playback error"),
      Str("Video player not ready. Please try again.") }

VideoOp(name, video) == [name |-> name, video |-> video]

\* The upload screen is not under study: the state of this part wherever it plays no
\* role.
VideoIdle ==
    /\ uploading = FALSE
    /\ result = JsNull
    /\ error = JsNull
    /\ selectedFile = Null
    /\ picking = FALSE
    /\ requests = {}
    /\ videoOp = VideoOp("none", Null)

\* The upload screen after its first render.
VideoMounted ==
    /\ uploading = FALSE
    /\ result = JsNull
    /\ error = JsNull
    /\ selectedFile = Null
    /\ picking = FALSE
    /\ requests = {}
    /\ videoOp = VideoOp("mount", Null)

\* Variant of PressSelect for a button that is not disabled while uploading.
PressSelectNotDisabled ==
    /\ ~picking
    /\ selectedFile < MaxVideos
    /\ picking' = TRUE
    /\ videoOp' = VideoOp("select", selectedFile)
    /\ UNCHANGED <<uploading, result, error, selectedFile, requests>>

\* The select button, disabled={uploading}: selectVideo up to the file dialog (web) or
\* `await DocumentPicker.getDocumentAsync(...)` (native).  The picker is modal: the
\* button cannot be pressed while it is open.
PressSelect ==
    /\ ~uploading
    /\ ~picking
    /\ selectedFile < MaxVideos
    /\ picking' = TRUE
    /\ videoOp' = VideoOp("select", selectedFile)
    /\ UNCHANGED <<uploading, result, error, selectedFile, requests>>

\* The picker closes without a file: no change event (web), res.canceled or a
\* rejection that the catch reports in an alert (native).
PickerCancelled ==
    /\ picking
    /\ picking' = FALSE
    /\ videoOp' = VideoOp("cancelled", selectedFile)
    /\ UNCHANGED <<uploading, result, error, selectedFile, requests>>

\* Variant of FilePicked that keeps the result and the error of the previous video.
FilePickedKeepsResult ==
    /\ picking
    /\ picking' = FALSE
    /\ selectedFile' = selectedFile + 1
    /\ uploading' = TRUE
    /\ requests' = requests \cup {selectedFile + 1}
    /\ videoOp' = VideoOp("picked", selectedFile + 1)
    /\ UNCHANGED <<result, error>>

\* A file is picked: setSelectedFile, setResult(null), setError(null), setVideoUri,
\* and uploadVideo up to `await ApiService.uploadVideo(fileUri)`.
FilePicked ==
    /\ picking
    /\ picking' = FALSE
    /\ selectedFile' = selectedFile + 1
    /\ result' = JsNull
    /\ error' = JsNull
    /\ uploading' = TRUE
    /\ requests' = requests \cup {selectedFile + 1}
    /\ videoOp' = VideoOp("picked", selectedFile + 1)

\* uploadVideo resumes for video v: the try, the catch, the finally.
UploadCompletes(v, outcome) ==
    /\ v \in requests
    /\ requests' = requests \ {v}
    /\ IF outcome.tag = "returned"
       THEN /\ result' = [video |-> v, response |-> outcome.value]
            /\ error' = JsNull
       ELSE /\ error' = ErrorMessage(outcome.error)
            /\ UNCHANGED result
    /\ uploading' = FALSE
    /\ videoOp' = VideoOp(IF outcome.tag = "returned" THEN "success" ELSE "failure", v)
    /\ UNCHANGED <<selectedFile, picking>>

\* The preview of the selected video or the play button reports an error.
PreviewFails(msg) ==
    /\ selectedFile # Null
    /\ error # msg
    /\ error' = msg
    /\ videoOp' = VideoOp("preview error", selectedFile)
    /\ UNCHANGED <<uploading, result, selectedFile, picking, requests>>

----------------------------------------------------------------------------
\* config/api.ts: the base URL and getWebSocketUrl.

\* A URL is the sequence of the pieces of its string, cut so that 'http://' and
\* 'https://' occur in it only as whole pieces.
HttpScheme == "http://"
HttpsScheme == "https://"
Hosts == {"localhost", "127.0.0.1", "human-activity-api.onrender.com"}
Ports == {<<>>, <<":8000">>}

\* What follows the authority: nothing, a trailing slash, a path, or the path of a
\* forwarding proxy that names the backend by its URL.
Paths ==
    { <<>>, <<"/">>, <<"/api">>,
      <<"/", HttpScheme, "backend", ":8000">>, <<"/", HttpsScheme, "backend">> }

\* getApiUrl(): the value of REACT_APP_API_URL, or one of the two defaults.
LocalBaseUrl == <<HttpScheme, "localhost", ":8000">>
ProductionBaseUrl == <<HttpsScheme, "human-activity-api.onrender.com">>
BaseUrls ==
    { <<s, h>> \o p \o q : s \in {HttpScheme, HttpsScheme}, h \in Hosts, p \in Ports,
                           q \in Paths }

\* The index of the first piece of url that is pattern, 0 when there is none.
IndexOf(url, pattern) ==
    IF \E i \in DOMAIN url : url[i] = pattern
    THEN CHOOSE i \in DOMAIN url :
             /\ url[i] = pattern
             /\ \A j \in 1..(i - 1) : url[j] # pattern
    ELSE 0

\* String.prototype.replace(pattern, replacement) with a string pattern: the first
\* occurrence, wherever it is, is replaced; without one the string is returned as is.
Replace(url, pattern, replacement) ==
    IF IndexOf(url, pattern) = 0 THEN url
    ELSE [url EXCEPT ![IndexOf(url, pattern)] = replacement]

\* getWebSocketUrl()
GetWebSocketUrl(base) ==
    LET wsUrl == Replace(Replace(base, HttpScheme, "ws://"), HttpsScheme, "wss://")
    IN  wsUrl \o <<"/ws/frames">>

\* The configuration as it is wherever it plays no role: the local default, unused.
UrlIdle == baseUrl = LocalBaseUrl /\ webSocketUrl = NotCalled

CallGetWebSocketUrl ==
    /\ webSocketUrl = NotCalled
    /\ webSocketUrl' = Returned(GetWebSocketUrl(baseUrl))
    /\ UNCHANGED baseUrl

----------------------------------------------------------------------------
\* The parts of the application the frame stream client does not touch.
otherVars == <<uploadVars, appVars, cameraVars, videoVars, consumerVars, urlVars>>

\* A step of the client leaves them as they are.
Rest == UNCHANGED otherVars

Init == ClientInit /\ ConsumerReturns /\ UrlIdle /\ UploadIdle /\ AppIdle /\ CameraIdle /\ VideoIdle

Next ==
    \/ Connect /\ Rest
    \/ ConnectThrows /\ Rest
    \/ Disconnect /\ Rest
    \/ \E b \in Frames : SendFrame(b) /\ Rest
    \/ \E k \in ControlTypes : SendControl(k) /\ Rest
    \/ \E t \in DOMAIN sockets : SocketOpen(t) /\ Rest
    \/ \E t \in DOMAIN sockets : \E raw \in Payloads : SocketMessage(t, raw) /\ Rest
    \/ \E t \in DOMAIN sockets : SocketError(t) /\ Rest
    \/ \E t \in DOMAIN sockets : SocketClose(t) /\ Rest

Spec == Init /\ [][Next]_vars

----------------------------------------------------------------------------
\* One uploadVideo call against one response of the prediction endpoint.

\* A step of uploadVideo leaves everything else as it is.
UploadRest ==
    UNCHANGED <<clientVars, appVars, cameraVars, videoVars, consumerVars, urlVars>>

UploadNext ==
    \/ CallUploadVideoGradio /\ UploadRest
    \/ CallUploadVideoLocal /\ UploadRest

\* The call is about to be made, against any of the responses.
UploadInit ==
    /\ ClientInit
    /\ ConsumerReturns
    /\ UrlIdle
    /\ AppIdle
    /\ CameraIdle
    /\ VideoIdle
    /\ uploadIn \in UploadInputs
    /\ uploadOut = NotCalled

UploadSpec == UploadInit /\ [][UploadNext]_vars

----------------------------------------------------------------------------
\* The App from its mount on: health checks and retries.

AppRest ==
    UNCHANGED <<clientVars, uploadVars, cameraVars, videoVars, consumerVars, urlVars>>

AppNext ==
    \/ PressRetry /\ AppRest
    \/ \E answer \in HealthAnswers(backend) : CheckApiHealthResumes(answer) /\ AppRest

AppInit == ClientInit /\ ConsumerReturns /\ UrlIdle /\ UploadIdle /\ CameraIdle /\ VideoIdle /\ AppMounted

AppSpec == AppInit /\ [][AppNext]_vars

----------------------------------------------------------------------------
\* The camera screen from its first render on.

CameraRest ==
    UNCHANGED <<clientVars, uploadVars, appVars, videoVars, consumerVars, urlVars>>

CameraNext ==
    \/ PressStart /\ CameraRest
    \/ PressStop /\ CameraRest
    \/ Unmount /\ CameraRest
    \/ \E i \in DOMAIN clients : TransportOpen(i) /\ CameraRest
    \/ \E i \in DOMAIN clients : \E raw \in StreamPayloads :
           TransportMessage(i, raw) /\ CameraRest
    \/ \E i \in DOMAIN clients : TransportError(i) /\ CameraRest
    \/ \E i \in DOMAIN clients : TransportClose(i) /\ CameraRest
    \/ \E t \in timers : TimerFires(t) /\ CameraRest
    \/ \E k \in DOMAIN capturing : \E ok \in BOOLEAN : CaptureResumes(k, ok) /\ CameraRest

CameraInit == ClientInit /\ ConsumerReturns /\ UrlIdle /\ UploadIdle /\ AppIdle /\ VideoIdle /\ CameraMounted

CameraSpec == CameraInit /\ [][CameraNext]_vars

----------------------------------------------------------------------------
\* The upload screen from its first render on.

VideoRest ==
    UNCHANGED <<clientVars, uploadVars, appVars, cameraVars, consumerVars, urlVars>>

VideoNext ==
    \/ PressSelect /\ VideoRest
    \/ PickerCancelled /\ VideoRest
    \/ FilePicked /\ VideoRest
    \/ \E v \in requests : \E outcome \in UploadOutcomes :
           UploadCompletes(v, outcome) /\ VideoRest
    \/ \E msg \in PreviewErrors : PreviewFails(msg) /\ VideoRest

VideoInit == ClientInit /\ ConsumerReturns /\ UrlIdle /\ UploadIdle /\ AppIdle /\ CameraIdle /\ VideoMounted

VideoSpec == VideoInit /\ [][VideoNext]_vars

----------------------------------------------------------------------------
\* One streaming session on one connection, as CameraStream drives it: connect(),
\* sendControl/sendFrame calls, the server's replies, disconnect().  The same
\* operations as above, with room for a whole start .. frames .. end exchange.

SessionPayloads == {RawRunningFinal, RawAck}

SessionConnect == Len(sockets) = 0 /\ Connect

SessionSendFrame(jpegBytes) ==
    /\ Transmitted + delivered < MaxSessionIO
    /\ SendIfOpen("sendFrame", Binary(jpegBytes))

SessionSendControl(type) ==
    /\ Transmitted + delivered < MaxSessionIO
    /\ SendIfOpen("sendControl", Text(JsonStringifyControl(type)))

SessionMessage(t, raw) ==
    /\ Transmitted + delivered < MaxSessionIO
    /\ OnMessage(t, raw)

SessionNext ==
    \/ SessionConnect /\ Rest
    \/ Disconnect /\ Rest
    \/ \E b \in Frames : SessionSendFrame(b) /\ Rest
    \/ \E k \in ControlTypes : SessionSendControl(k) /\ Rest
    \/ \E t \in DOMAIN sockets : SocketOpen(t) /\ Rest
    \/ \E t \in DOMAIN sockets :
            \E raw \in SessionPayloads : SessionMessage(t, raw) /\ Rest
    \/ \E t \in DOMAIN sockets : SocketClose(t) /\ Rest

SessionSpec == Init /\ [][SessionNext]_vars

----------------------------------------------------------------------------
\* One connection and its inbound messages, for every consumer: each of the callbacks
\* the message handler invokes either returns or throws.

DispatchNext ==
    \/ SessionConnect /\ Rest
    \/ Disconnect /\ Rest
    \/ \E t \in DOMAIN sockets : SocketOpen(t) /\ Rest
    \/ \E t \in DOMAIN sockets : \E raw \in Payloads : SocketMessage(t, raw) /\ Rest
    \/ \E t \in DOMAIN sockets : SocketClose(t) /\ Rest

DispatchInit ==
    /\ ClientInit
    /\ UrlIdle
    /\ UploadIdle
    /\ AppIdle
    /\ CameraIdle
    /\ VideoIdle
    /\ throwing \in SUBSET MessageCallbacks

DispatchSpec == DispatchInit /\ [][DispatchNext]_vars

----------------------------------------------------------------------------
\* The connection lifecycle alone (no traffic: sends and inbound messages touch
\* neither a socket nor a promise), over a transport that reports: every socket whose
\* connect() is pending eventually reports open or error, and its close event comes
\* only after one of the two.

TransportReports(t) ==
    /\ t \in DOMAIN sockets
    /\ sockets[t].promise = "pending"
    /\ (SocketOpen(t) \/ SocketError(t))

SocketCloseReported(t) == sockets[t].promise # "pending" /\ SocketClose(t)

LifecycleNext ==
    \/ Connect /\ Rest
    \/ ConnectThrows /\ Rest
    \/ Disconnect /\ Rest
    \/ \E t \in DOMAIN sockets : SocketOpen(t) /\ Rest
    \/ \E t \in DOMAIN sockets : SocketError(t) /\ Rest
    \/ \E t \in DOMAIN sockets : SocketCloseReported(t) /\ Rest

LiveSpec ==
    /\ Init
    /\ [][LifecycleNext]_vars
    /\ \A t \in 1..MaxConnects : WF_clientVars(TransportReports(t))

----------------------------------------------------------------------------
\* One getWebSocketUrl call for each base URL the configuration may hold.

UrlRest == UNCHANGED <<clientVars, uploadVars, appVars, cameraVars, videoVars, consumerVars>>

UrlNext == CallGetWebSocketUrl /\ UrlRest

UrlInit ==
    /\ ClientInit
    /\ ConsumerReturns
    /\ UploadIdle
    /\ AppIdle
    /\ CameraIdle
    /\ VideoIdle
    /\ baseUrl \in BaseUrls
    /\ webSocketUrl = NotCalled

UrlSpec == UrlInit /\ [][UrlNext]_vars

----------------------------------------------------------------------------
\* Properties.

IsSend(op) == op.name \in {"sendFrame", "sendControl"}

\* The socket made by the most recent connect() that made one (0 when there is none).
Latest == Len(sockets)

ParseFailure == <<Call("onError", Str("Failed to parse server message"))>>
ConnectionError == <<Call("onError", Str("Connection error"))>>

\* C1: a sendFrame or sendControl call made while the client's transport is not open
\* (no socket referenced, or the referenced socket CONNECTING, CLOSING or CLOSED)
\* raises nothing and leaves the wire of every socket as it was.
C1_SendWhileNotOpenIsSilent ==
    [][(IsSend(lastOp') /\ ~IsConnected) => (wire' = wire /\ ~lastOp'.threw)]_vars

\* A send call was made while the referenced socket was still CONNECTING, where
\* WebSocket.send itself would raise.
C1_Witness ==
    /\ IsSend(lastOp)
    /\ lastOp.sock # Null
    /\ sockets[lastOp.sock].readyState = "CONNECTING"
    /\ ws = lastOp.sock

\* C2 (as claimed): once the most recent connect() has resolved, isConnected is true,
\* and it stays true in every step that is neither a disconnect(), nor a further
\* connect(), nor a close or error event of the transport that connect() made.
C2_ConnectedUntilReleased ==
    [][/\ (lastOp'.name = "open" /\ lastOp'.sock = Latest) => IsConnected'
       /\ ( /\ Latest > 0
            /\ sockets[Latest].promise = "fulfilled"
            /\ IsConnected
            /\ lastOp'.name \notin {"disconnect", "connect"}
            /\ ~(lastOp'.name \in {"close", "error"} /\ lastOp'.sock = Latest) )
          => IsConnected']_vars

\* C3 (as claimed): isConnected is true exactly when the transport made by the most
\* recent connect() is OPEN.
C3_ConnectedIffLatestOpen ==
    IsConnected <=> (Latest > 0 /\ sockets[Latest].readyState = "OPEN")

\* C4: an inbound message that JSON.parse rejects invokes the error callback with
\* 'Failed to parse server message' and nothing else (no disconnected callback), and
\* leaves this.ws and every socket, hence isConnected, as they were.
C4_UndecodableMessageReported ==
    [][(lastOp'.name = "message" /\ ~JsonParse(lastOp'.data.body).ok)
        => /\ fired' = ParseFailure
           /\ ws' = ws
           /\ sockets' = sockets
           /\ IsConnected' = IsConnected]_vars

\* An undecodable message was delivered on the open connection.
C4_Witness ==
    /\ lastOp.name = "message"
    /\ lastOp.data.body = RawGarbage
    /\ IsConnected
    /\ ws = lastOp.sock

\* A step in which the promise of some connect() call becomes rejected.
RejectsBecauseThrown == thrown' > thrown
RejectsSocket(t) == sockets[t].promise = "pending" /\ sockets'[t].promise = "rejected"

\* C5 (as claimed): whenever a connect() rejects, the error callback is invoked with
\* 'Connection error' and isConnected is false afterwards.
C5_EveryRejectionReported ==
    [][(RejectsBecauseThrown \/ \E t \in DOMAIN sockets : RejectsSocket(t))
        => (fired' = ConnectionError /\ ~IsConnected')]_vars

\* C5 (amended): a connect() rejects either because its transport reported an error
\* before opening, and then the error callback is invoked with 'Connection error' and,
\* when that transport is the one of the most recent connect(), isConnected is false
\* afterwards; or because the transport could not be constructed, and then no callback
\* is invoked and this.ws, hence isConnected, stays as it was.
C5_RejectionByErrorReported ==
    [][/\ \A t \in DOMAIN sockets :
            RejectsSocket(t)
            => /\ lastOp'.name = "error" /\ lastOp'.sock = t
               /\ fired' = ConnectionError
               /\ (t = Latest => ~IsConnected')
       /\ RejectsBecauseThrown
            => /\ lastOp'.name = "connect"
               /\ fired' = <<>>
               /\ ws' = ws /\ sockets' = sockets
               /\ IsConnected' = IsConnected
       /\ \A t \in DOMAIN sockets :
            (lastOp'.name = "error" /\ lastOp'.sock = t /\ sockets[t].promise = "pending")
            => sockets'[t].promise = "rejected"]_vars

\* The transport of the most recent connect() failed before it opened, and that
\* connect() is rejected.
C5_Witness ==
    /\ lastOp.name = "error"
    /\ lastOp.sock = Latest
    /\ sockets[Latest].promise = "rejected"
    /\ fired = ConnectionError
    /\ ~IsConnected

\* C6: every close event invokes the disconnected callback exactly once, and no other
\* callback, and leaves this.ws null and isConnected false.
C6_CloseLeavesDisconnected ==
    lastOp.name = "close"
    => /\ fired = <<Call("onDisconnected", Undefined)>>
       /\ ws = Null
       /\ ~IsConnected
       /\ sockets[lastOp.sock].readyState = "CLOSED"

\* The close event of an earlier transport arrived while the transport of a later
\* connect() is open.
C6_Witness ==
    /\ lastOp.name = "close"
    /\ lastOp.sock = 1
    /\ Len(sockets) = 2
    /\ sockets[2].readyState = "OPEN"

\* C7: disconnect() with no socket referenced raises nothing and changes nothing;
\* after any disconnect() this.ws is null and isConnected is false; and a second
\* disconnect() leaves what the first one left.
C7_DisconnectIdempotent ==
    [][lastOp'.name = "disconnect"
        => /\ ~lastOp'.threw
           /\ ws' = Null /\ ~IsConnected'
           /\ (ws = Null => (sockets' = sockets /\ wire' = wire /\ fired' = <<>>))
           /\ LET once == AfterDisconnect(ws, sockets)
                  twice == AfterDisconnect(once.ws, once.sockets)
              IN  /\ twice.ws = once.ws
                  /\ twice.sockets = once.sockets
                  /\ ~twice.threw
                  /\ ws' = once.ws /\ sockets' = once.sockets]_vars

\* disconnect() was called with no socket referenced, after an earlier disconnect()
\* had closed one.
C7_Witness ==
    /\ lastOp.name = "disconnect"
    /\ lastOp.sock = Null
    /\ \E t \in DOMAIN sockets : sockets[t].readyState = "CLOSING"

\* C8: the wire changes only in a sendFrame or sendControl call made while isConnected
\* is true, and then by exactly that call's message on the referenced socket; a call
\* made while it is false transmits nothing, then or in any later step.
C8_TransmittedAreSendsWhileOpen ==
    [][/\ wire' # wire
            => \/ lastOp'.name = "connect" /\ wire' = Append(wire, <<>>)
               \/ /\ IsSend(lastOp') /\ IsConnected
                  /\ wire' = [wire EXCEPT ![ws] = Append(@, lastOp'.data)]
       /\ (IsSend(lastOp') /\ IsConnected)
            => wire' = [wire EXCEPT ![ws] = Append(@, lastOp'.data)]
       /\ (IsSend(lastOp') /\ ~IsConnected) => wire' = wire]_vars

\* The first message on the wire of the second connection is the one just sent:
\* nothing offered earlier was kept for it.
C8_Witness ==
    /\ IsSend(lastOp)
    /\ ws = 2
    /\ wire[2] = <<lastOp.data>>
    /\ wire[1] = <<>>

\* C9: the callbacks that inbound messages cause run in the order the messages were
\* delivered: in the log, the callback of an earlier message precedes that of a
\* later one.
C9_DispatchInDeliveryOrder ==
    /\ \A i, j \in DOMAIN dispatched : i < j => dispatched[i].seq < dispatched[j].seq
    /\ \A i \in DOMAIN dispatched : dispatched[i].seq \in 1..delivered

\* Two delivered messages have each caused a callback.
C9_Witness == Len(dispatched) = 2 /\ delivered = 2

\* C10: a 'prediction' message with a data payload invokes the prediction callback
\* once with that payload and no other callback; one without a payload invokes none.
C10_PredictionDispatch ==
    lastOp.name = "message"
    => /\ lastOp.data.body = RawWalking
            => fired = <<Call("onPrediction", Prediction("walking", 92))>>
       /\ lastOp.data.body \in {RawPredictionNoData, RawPredictionNullData}
            => fired = <<>>

\* The prediction message of the scenario was delivered and the callback ran once
\* with activity walking, confidence 0.92.
C10_Witness ==
    /\ lastOp.name = "message"
    /\ lastOp.data.body = RawWalking
    /\ Len(fired) = 1
    /\ fired[1].cb = "onPrediction"
    /\ fired[1].arg.predicted_class = "walking"
    /\ fired[1].arg.confidence = 92

\* The same message with its `type` replaced.
WithType(message, type) == [message EXCEPT !.type = Str(type)]

\* The decoded value of the last or next inbound message is an object of this type.
IsOfType(raw, type) ==
    LET parsed == JsonParse(raw) IN
    parsed.ok /\ parsed.value.tag = "object" /\ parsed.value.type = Str(type)

\* C11: a 'final' message invokes exactly the callbacks, with the same arguments, that
\* the same message with type 'prediction' invokes, and the other way round; either
\* leaves this.ws, the sockets and the wire as they were.
C11_FinalHandledAsPrediction ==
    [][lastOp'.name = "message"
        => LET raw == lastOp'.data.body
               m == JsonParse(raw).value
           IN  /\ IsOfType(raw, "final")
                    => /\ fired' = HandleMessage(WithType(m, "prediction")).calls
                       /\ ws' = ws /\ sockets' = sockets /\ wire' = wire
               /\ IsOfType(raw, "prediction")
                    => /\ fired' = HandleMessage(WithType(m, "final")).calls
                       /\ ws' = ws /\ sockets' = sockets /\ wire' = wire]_vars

\* The final message of the scenario was delivered and the prediction callback ran
\* once with activity running, confidence 0.81.
C11_Witness ==
    /\ lastOp.name = "message"
    /\ lastOp.data.body = RawRunningFinal
    /\ fired = <<Call("onPrediction", Running)>>

\* C12: an 'error' message invokes the error callback once and no other callback:
\* with the message's text when it carries one, with 'Unknown error' when the message
\* field is absent (or is the empty text); it leaves this.ws and every socket, hence
\* the connection, as they were.
C12_ErrorMessageReported ==
    [][(lastOp'.name = "message" /\ IsOfType(lastOp'.data.body, "error"))
        => /\ Len(fired') = 1
           /\ fired'[1].cb = "onError"
           /\ lastOp'.data.body = RawErrorBoom => fired'[1].arg = Str("boom")
           /\ lastOp'.data.body \in {RawErrorNoMessage, RawErrorEmptyMessage}
                => fired'[1].arg = Str("Unknown error")
           /\ ws' = ws /\ sockets' = sockets
           /\ IsConnected' = IsConnected]_vars

\* An error message without a message field was delivered on the open connection,
\* and the connection is still open.
C12_Witness ==
    /\ lastOp.name = "message"
    /\ lastOp.data.body = RawErrorNoMessage
    /\ fired = <<Call("onError", Str("Unknown error"))>>
    /\ IsConnected

\* C13: an 'ack' message, whatever other fields it carries and whatever the state of
\* the socket it arrives on, invokes neither the prediction callback nor the error
\* callback (it invokes no callback at all).
C13_AckInvokesNothing ==
    (lastOp.name = "message" /\ IsOfType(lastOp.data.body, "ack"))
    => /\ \A i \in DOMAIN fired : fired[i].cb \notin {"onPrediction", "onError"}
       /\ fired = <<>>

\* An ack carrying a data payload and a message text arrived on a socket that
\* disconnect() had already closed and released.
C13_Witness ==
    /\ lastOp.name = "message"
    /\ lastOp.data.body = RawAckFull
    /\ sockets[lastOp.sock].readyState = "CLOSING"
    /\ ws = Null
    /\ fired = <<>>

\* An event of a socket that an earlier connect() made, arriving after a later
\* connect() has made another one.
IsStaleEvent(op) ==
    /\ op.name \in {"open", "message", "error", "close"}
    /\ op.sock < Latest

\* C14 (as claimed): once connect() has been called again, an event of a transport
\* made by an earlier connect() invokes no callback and leaves this.ws and
\* isConnected as they were.
C14_StaleTransportIsSilent ==
    [][IsStaleEvent(lastOp')
        => (fired' = <<>> /\ ws' = ws /\ IsConnected' = IsConnected)]_vars

Connected == <<Call("onConnected", Undefined)>>

\* C15: the promise of a connect() becomes fulfilled only in the open event of the
\* transport that connect() made, and in that same handler run the connected callback
\* is invoked exactly once; the connected callback is invoked nowhere else, so never
\* for a connect() whose promise is or becomes rejected; a settled promise keeps its
\* outcome.
C15_ResolvesOnOpenWithCallback ==
    [][/\ \A t \in DOMAIN sockets :
            (sockets[t].promise # "fulfilled" /\ sockets'[t].promise = "fulfilled")
            => /\ lastOp'.name = "open" /\ lastOp'.sock = t
               /\ sockets[t].readyState = "CONNECTING"
               /\ sockets'[t].readyState = "OPEN"
               /\ fired' = Connected
       /\ (\E i \in DOMAIN fired' : fired'[i].cb = "onConnected")
            => /\ fired' = Connected
               /\ lastOp'.name = "open"
               /\ sockets[lastOp'.sock].promise = "pending"
               /\ sockets'[lastOp'.sock].promise = "fulfilled"
       /\ lastOp'.name = "open" => fired' = Connected
       /\ \A t \in DOMAIN sockets :
            sockets[t].promise # "pending" => sockets'[t].promise = sockets[t].promise
       /\ RejectsBecauseThrown => fired' = <<>>]_vars

\* One connect() was rejected by an error of its transport and a later one was
\* fulfilled by the open event of its own.
C15_Witness ==
    /\ Len(sockets) = 2
    /\ sockets[1].promise = "rejected"
    /\ sockets[2].promise = "fulfilled"
    /\ lastOp.name = "open" /\ lastOp.sock = 2
    /\ fired = Connected

\* C16: every error event of a transport invokes the error callback once with
\* 'Connection error' and no other callback; when the connect() that made the
\* transport is still pending it becomes rejected, when it is already fulfilled it
\* stays fulfilled; no promise changes once it is settled.
C16_ErrorEventReportedSettlesOnce ==
    [][/\ lastOp'.name = "error"
            => LET t == lastOp'.sock IN
               /\ fired' = ConnectionError
               /\ sockets[t].promise = "pending" => sockets'[t].promise = "rejected"
               /\ sockets[t].promise = "fulfilled" => sockets'[t].promise = "fulfilled"
       /\ \A t \in DOMAIN sockets :
            sockets[t].promise \in {"fulfilled", "rejected"}
            => sockets'[t].promise = sockets[t].promise]_vars

\* A transport reported an error after its connect() had resolved: the callback ran
\* and the promise is still fulfilled.
C16_Witness ==
    /\ lastOp.name = "error"
    /\ sockets[lastOp.sock].promise = "fulfilled"
    /\ sockets[lastOp.sock].readyState = "CLOSED"
    /\ fired = ConnectionError

\* Number of connect() calls made so far: each either constructed a WebSocket or
\* raised in the constructor.
ConnectCalls == Len(sockets) + thrown

\* C17 (as claimed): a transport is created only inside connect(); the step after an
\* error or close event of any transport leaves the client disconnected unless it is
\* a connect(); and there are as many transports as connect() calls.
C17_NoReconnectOneTransportPerCall ==
    [][/\ Len(sockets') # Len(sockets) => lastOp'.name = "connect"
       /\ (lastOp.name \in {"error", "close"} /\ lastOp'.name # "connect")
            => ~IsConnected'
       /\ Len(sockets') = ConnectCalls']_vars

\* C17 (amended): the sockets grow only in a connect() call, by one, and a connect()
\* call either constructs one socket or raises in the constructor and constructs
\* none; after an error or close event of the transport of the most recent connect()
\* isConnected is false, and it stays false while that transport is CLOSED and
\* connect() is not called again; isConnected turns true only in the open event of
\* the transport of the most recent connect().
C17_NoReconnectTransportsOnlyByConnect ==
    [][/\ Len(sockets') # Len(sockets)
            => /\ lastOp'.name = "connect"
               /\ Len(sockets') = Len(sockets) + 1
               /\ thrown' = thrown
       /\ lastOp'.name = "connect" => ConnectCalls' = ConnectCalls + 1
       /\ lastOp'.name # "connect" => ConnectCalls' = ConnectCalls
       /\ (lastOp'.name \in {"error", "close"} /\ lastOp'.sock = Latest)
            => ~IsConnected'
       /\ ( /\ Latest > 0
            /\ sockets[Latest].readyState = "CLOSED"
            /\ lastOp'.name # "connect" )
            => ~IsConnected'
       /\ (~IsConnected /\ IsConnected')
            => (lastOp'.name = "open" /\ lastOp'.sock = Latest)]_vars

\* Two connect() calls were made, the first could not construct its transport, and
\* the only transport there is has failed and closed: the client is disconnected and
\* holds no socket.
C17_Witness ==
    /\ thrown = 1
    /\ Len(sockets) = 1
    /\ lastOp.name = "close" /\ lastOp.sock = Latest
    /\ sockets[1].promise = "rejected"
    /\ ws = Null /\ ~IsConnected

StartMessage == Text("{\"type\":\"start\"}")
EndMessage == Text("{\"type\":\"end\"}")

\* What one session hands to the network: start, then frames, then end.
IsSessionTraffic(w) ==
    /\ Len(w) >= 2
    /\ w[1] = StartMessage
    /\ w[Len(w)] = EndMessage
    /\ \A i \in 2..(Len(w) - 1) : w[i] \in {Binary(b) : b \in Frames}

\* C18: on the open connection every sendControl and sendFrame call adds exactly its
\* one message behind those already transmitted, so start, N frames, end go out as
\* N + 2 messages in call order; the 'final' message then invokes the prediction
\* callback once with its payload (running, 0.81); and after disconnect() isConnected
\* is false.
C18_SessionExchange ==
    [][/\ (IsSend(lastOp') /\ IsConnected)
            => /\ wire' = [wire EXCEPT ![ws] = Append(@, lastOp'.data)]
               /\ Len(wire'[ws]) = Len(wire[ws]) + 1
               /\ \A i \in DOMAIN wire[ws] : wire'[ws][i] = wire[ws][i]
       /\ (lastOp'.name = "sendControl" /\ IsConnected)
            => wire'[ws][Len(wire'[ws])] \in {StartMessage, EndMessage}
       /\ (lastOp'.name = "sendFrame" /\ IsConnected)
            => wire'[ws][Len(wire'[ws])] \in {Binary(b) : b \in Frames}
       /\ (lastOp'.name = "message" /\ lastOp'.data.body = RawRunningFinal)
            => fired' = <<Call("onPrediction", Prediction("running", 81))>>
       /\ lastOp'.name = "disconnect" => ~IsConnected']_vars

\* The whole scenario has run: start, two frames and end are on the wire in that
\* order, the final message that followed reached the prediction callback, and
\* disconnect() has released the connection.
C18_Witness ==
    /\ Len(sockets) = 1
    /\ wire[1] = <<StartMessage, Binary("jpeg"), Binary("jpeg"), EndMessage>>
    /\ IsSessionTraffic(wire[1])
    /\ delivered = 1
    /\ dispatched = <<[cb |-> "onPrediction", seq |-> 1]>>
    /\ lastOp.name = "disconnect" /\ lastOp.sock = 1
    /\ ~IsConnected

\* C19: the promise of a connect() changes only from pending, and only in the open or
\* error event of its own transport (no timer or other step settles it); that event
\* settles it at once; and over a transport that eventually reports open or error,
\* every connect() that constructed a transport is eventually fulfilled or rejected.
C19_SettlesWhenTransportReports ==
    /\ [][\A t \in DOMAIN sockets :
            sockets'[t].promise # sockets[t].promise
            => /\ sockets[t].promise = "pending"
               /\ lastOp'.name \in {"open", "error"}
               /\ lastOp'.sock = t]_vars
    /\ [][lastOp'.name \in {"open", "error"}
            => sockets'[lastOp'.sock].promise # "pending"]_vars
    /\ \A t \in 1..MaxConnects :
            (Len(sockets) >= t) ~> (Len(sockets) >= t /\ sockets[t].promise # "pending")

\* disconnect() was called while the transport was still connecting, and the error
\* the transport then reported rejected the connect().
C19_Witness ==
    /\ lastOp.name = "error"
    /\ ws = Null
    /\ sockets[lastOp.sock].promise = "rejected"
    /\ \A t \in DOMAIN sockets : sockets[t].promise # "pending"
    /\ Len(sockets) = MaxConnects

\* The text message the protocol asks for a control kind.
ExpectedControl(type) == IF type = "start" THEN StartMessage ELSE EndMessage

\* C20: while the connection is open, a sendFrame(bytes) call adds to the wire exactly
\* one binary message whose body is bytes, a sendControl(kind) call exactly one text
\* message {"type": kind}; a send call raises nothing; and the wire changes in no
\* other step (connect() only starts the empty wire of its new socket).
C20_OneMessagePerSend ==
    [][/\ \A b \in Frames :
            (IsConnected /\ SessionSendFrame(b))
            => /\ wire' = [wire EXCEPT ![ws] = Append(@, [kind |-> "binary", body |-> b])]
               /\ ~lastOp'.threw
       /\ \A k \in ControlTypes :
            (IsConnected /\ SessionSendControl(k))
            => /\ wire' = [wire EXCEPT ![ws] = Append(@, ExpectedControl(k))]
               /\ ~lastOp'.threw
       /\ wire' # wire
            => \/ IsSend(lastOp') /\ IsConnected
               \/ lastOp'.name = "connect" /\ wire' = Append(wire, <<>>)]_vars

\* A frame, then the end control message, were sent on the open connection and are
\* the last two messages on its wire.
C20_Witness ==
    /\ IsConnected
    /\ lastOp.name = "sendControl"
    /\ Len(wire[ws]) >= 2
    /\ wire[ws][Len(wire[ws]) - 1] = [kind |-> "binary", body |-> "jpeg"]
    /\ wire[ws][Len(wire[ws])] = [kind |-> "text", body |-> "{\"type\":\"end\"}"]

\* C21: on a response whose status is outside 200..299, uploadVideo of either variant
\* throws and returns nothing; when the body could be read, the error is 'Upload
\* failed' with the status and the body text.
C21_NonOkUploadThrowsWithBody ==
    (uploadOut # NotCalled /\ uploadIn.response.status \notin 200..299)
    => /\ uploadOut.tag = "threw"
       /\ uploadIn.response.readable
            => uploadOut.error = [name |-> "Error", message |-> "Upload failed",
                                  status |-> uploadIn.response.status,
                                  text |-> uploadIn.response.body]

\* The Gradio endpoint answered 500 with a complete, well-formed prediction text, and
\* the call threw with that text in the error instead of returning the prediction.
C21_Witness ==
    /\ uploadIn # NotCalled
    /\ uploadIn.variant = "gradio"
    /\ uploadIn.response.status = 500
    /\ uploadIn.response.body =
            JsonBody(GradioResponse(<<ResultText(Line("Walking"), Line("92.5%"), Line("3"))>>))
    /\ uploadOut.tag = "threw"
    /\ uploadOut.error.text = uploadIn.response.body

\* The first item of the Gradio envelope of a 2xx response, when it is a text.
IsResultTextCall ==
    /\ uploadOut # NotCalled
    /\ uploadIn.variant = "gradio"
    /\ uploadIn.response.status \in 200..299
    /\ uploadIn.response.body.json
    /\ uploadIn.response.body.value.tag = "object"
    /\ uploadIn.response.body.value.hasData
    /\ Len(uploadIn.response.body.value.data) > 0
    /\ uploadIn.response.body.value.data[1].tag = "string"

\* C22: in the Gradio variant, for a 2xx response with a result text, uploadVideo
\* returns either the extracted result or the default result (Unknown, 0.5, 0, raw
\* text); it returns the extracted one only when the text has all three markers, and
\* the default one whenever a marker is absent.
C22_ExtractedOnlyWithAllMarkers ==
    IsResultTextCall
    => LET text == uploadIn.response.body.value.data[1]
           allPresent == text.activity.present /\ text.confidence.present
                         /\ text.classId.present
           default == [activity |-> "Unknown", confidence |-> 500, class_id |-> 0,
                       raw_response |-> text]
       IN  /\ uploadOut.tag = "returned"
           /\ ~allPresent => uploadOut.value = default
           /\ uploadOut.value # default
                => /\ allPresent
                   /\ DOMAIN uploadOut.value = {"activity", "confidence", "class_id"}
           /\ text = ResultText(Line(" Running "), Line("81%"), Line("12"))
                => uploadOut.value =
                     [activity |-> "Running", confidence |-> 810, class_id |-> 12]

\* The text had the activity and class id markers but no confidence marker, and the
\* call returned the default result with the raw text.
C22_Witness ==
    /\ IsResultTextCall
    /\ uploadIn.response.body.value.data[1] = ResultText(Line("Walking"), NoLine, Line("3"))
    /\ uploadOut.value.activity = "Unknown"
    /\ uploadOut.value.confidence = 500
    /\ uploadOut.value.class_id = 0
    /\ uploadOut.value.raw_response = ResultText(Line("Walking"), NoLine, Line("3"))

\* The answer of the health endpoint says that the model is loaded: a 2xx response whose
\* JSON says so.
ReportsModelLoaded(variant, answer) ==
    /\ ~answer.failed
    /\ answer.status >= 200 /\ answer.status <= 299
    /\ answer.body.json
    /\ IF variant = "gradio"
       THEN \E t \in { "Status: healthy, Model loaded: true",
                       "Status: unhealthy, Model loaded: true" } :
                answer.body.value = GradioResponse(<<Str(t)>>)
       ELSE answer.body.value.model_loaded = JsBool(TRUE)

C24_ClosedTransportIsSilent ==
    [][(/\ lastOp'.name \in {"message", "error"}
        /\ sockets[lastOp'.sock].readyState = "CLOSING")
        => \A i \in DOMAIN fired' : fired'[i].cb \notin {"onPrediction", "onError"}]_vars

\* C25 (as claimed): at most one capture timer is active at any time, and when
\* stopStreaming has just run (stop button or unmount) no capture timer is active.
C25_AtMostOneCaptureTimer ==
    /\ Cardinality(timers) <= 1
    /\ camOp.name \in {"stop", "unmount"} => timers = {}

\* The screen holds a client that is connected, its capture timer is running, and
\* both flags are displayed.
SessionRunning ==
    /\ streamClient # Null
    /\ ClientIsConnected(clients[streamClient])
    /\ frameInterval \in timers
    /\ streamState.isConnected
    /\ streamState.isRecording

\* C26 (as claimed): the close event of the client of an earlier session, which
\* stopStreaming has disconnected, leaves isConnected and isRecording displayed while
\* the newer session's client is connected and its capture timer is running.
C26_StaleCloseKeepsFlags ==
    [][(/\ camOp'.name = "close"
        /\ camOp'.client < streamClient
        /\ clients[camOp'.client].readyState = "CLOSING"
        /\ SessionRunning)
        => (streamState'.isConnected /\ streamState'.isRecording)]_vars

\* What a step hands to the network on the transport of client c.
NewOnWire(c) ==
    IF c \in DOMAIN streamWire
    THEN SubSeq(streamWire'[c], Len(streamWire[c]) + 1, Len(streamWire'[c]))
    ELSE streamWire'[c]

\* C27: 'start' is handed to the network only by the startStreaming that resumes when a
\* connect() resolves, and only on a client whose own connect() has resolved; a frame
\* is handed to the network only on a client that reports isConnected and whose
\* transport has carried 'start' first; and a capture begins only while the client the
\* screen holds reports isConnected.
C27_StartBeforeFramesWhileConnected ==
    [][ /\ \A c \in DOMAIN streamWire' : \A k \in DOMAIN NewOnWire(c) :
              /\ NewOnWire(c)[k] = StartMessage
                     => /\ camOp'.name = "open"
                        /\ clients'[c].promise = "fulfilled"
              /\ NewOnWire(c)[k].kind = "binary"
                     => /\ c \in DOMAIN clients
                        /\ ClientIsConnected(clients[c])
                        /\ Head(streamWire'[c]) = StartMessage
        /\ Len(capturing') > Len(capturing)
               => /\ streamClient # Null
                  /\ ClientIsConnected(clients[streamClient]) ]_vars

\* A frame has just been transmitted, behind the 'start' of its connection.
C27_Witness ==
    /\ camOp.name = "frame"
    /\ camOp.client # Null
    /\ Len(streamWire[camOp.client]) >= 2
    /\ streamWire[camOp.client][1] = StartMessage
    /\ streamWire[camOp.client][Len(streamWire[camOp.client])].kind = "binary"
    /\ ClientIsConnected(clients[camOp.client])

\* C28 (as claimed): stopStreaming clears the timer the screen holds, sends 'end' on a
\* connected client before it disconnects it, nothing is handed to a connection behind
\* its 'end', and a capture resumes with a frame only on the connection of the client
\* the screen held when the capture began (a capture that a stopStreaming has overtaken
\* transmits nothing).
C28_NoFrameFromStoppedCapture ==
    [][ /\ camOp'.name \in {"stop", "unmount"}
            => /\ frameInterval \notin timers'
               /\ streamClient' = Null
               /\ (streamClient # Null /\ ClientIsConnected(clients[streamClient]))
                      => /\ NewOnWire(streamClient) = <<EndMessage>>
                         /\ clients'[streamClient].readyState = "CLOSING"
        /\ \A c \in DOMAIN streamWire :
               (streamWire[c] # <<>> /\ streamWire[c][Len(streamWire[c])] = EndMessage)
                   => streamWire'[c] = streamWire[c]
        /\ camOp'.name = "frame"
            => \A c \in DOMAIN streamWire :
                   NewOnWire(c) # <<>> => c = camOp'.origin ]_vars

\* The step invoked the error callback of a client: its transport reported an error, or
\* delivered a server 'error' message or a text that is not JSON.
InvokesStreamError(op) ==
    \/ op.name = "error"
    \/ op.name = "message" /\ op.raw \in {RawErrorBoom, RawGarbage}

\* C29: every step that invokes the error callback runs stopStreaming to its end: the
\* timer the screen holds is cleared and no other timer is touched, 'end' is handed to
\* the client the screen holds if that client is connected and to no client otherwise,
\* that client is disconnected and released, and the recording flag on display is
\* false.
C29_StreamErrorEndsSession ==
    [][ InvokesStreamError(camOp')
        => /\ frameInterval' = Null
           /\ timers' = timers \ {frameInterval}
           /\ streamClient' = Null
           /\ mounted' => ~streamState'.isRecording
           /\ \A c \in DOMAIN streamWire :
                  NewOnWire(c) =
                      IF c = streamClient
                         /\ ClientIsConnected(clients[c])
                         /\ ~(camOp'.name = "error" /\ camOp'.client = c)
                      THEN <<EndMessage>> ELSE <<>>
           /\ streamClient # Null
                  => /\ ~clients'[streamClient].ws
                     /\ clients'[streamClient].readyState # "OPEN" ]_vars

\* A server 'error' message arrived in a running session: the timer is cleared, 'end'
\* went out, the client is closing and released, and nothing is being recorded.
C29_Witness ==
    /\ camOp.name = "message"
    /\ camOp.raw = RawErrorBoom
    /\ Len(streamWire[camOp.client]) >= 2
    /\ streamWire[camOp.client][Len(streamWire[camOp.client])] = EndMessage
    /\ clients[camOp.client].readyState = "CLOSING"
    /\ clients[camOp.client].render.lastPrediction = Undefined
    /\ streamClient = Null
    /\ timers = {}
    /\ mounted
    /\ ~streamState.isRecording

\* C30 (as claimed): a step that runs stopStreaming (the stop button, the error
\* callback, the unmount cleanup) leaves on display the lastPrediction that was on
\* display before it, which is the most recent prediction received.
C30_StopKeepsLastPrediction ==
    [][ (/\ camOp'.name \in {"stop", "unmount"} \/ InvokesStreamError(camOp')
         /\ mounted')
        => streamState'.lastPrediction = streamState.lastPrediction ]_vars

\* The frames on a wire behind its last 'start'.
RECURSIVE FramesSinceStart(_)
FramesSinceStart(w) ==
    IF w = <<>> \/ w[Len(w)] = StartMessage THEN 0
    ELSE (IF w[Len(w)].kind = "binary" THEN 1 ELSE 0)
         + FramesSinceStart(SubSeq(w, 1, Len(w) - 1))

\* C31 (as claimed): while the screen shows a recording session, frameCount equals the
\* number of frames transmitted on the connection of the client it holds since its
\* 'start', and it grows by one exactly in the steps that transmit a frame.
C31_FrameCountIsFramesTransmitted ==
    [][ (mounted' /\ streamState'.isRecording /\ streamClient' # Null)
        => /\ streamState'.frameCount = FramesSinceStart(streamWire'[streamClient'])
           /\ (streamState.isRecording /\ streamState'.frameCount = streamState.frameCount + 1)
                  => \E c \in DOMAIN streamWire :
                         /\ NewOnWire(c) # <<>>
                         /\ NewOnWire(c)[1].kind = "binary" ]_vars

\* C32: the uploading flag is true exactly while a request of ApiService.uploadVideo
\* is outstanding, at most one request is outstanding at a time and it is the one of
\* the selected video; the flag is set in the step that starts the upload and reset in
\* the step that completes it, by a success and by a failure alike.
C32_UploadingWhileOutstanding ==
    /\ uploading <=> requests # {}
    /\ Cardinality(requests) <= 1
    /\ requests \subseteq {selectedFile}
    /\ videoOp.name = "picked" => uploading
    /\ videoOp.name \in {"success", "failure"} => ~uploading

\* The upload of a second video has just started: the flag is set, its request is the
\* only one outstanding, and no result is on display.
C32_Witness ==
    /\ videoOp.name = "picked"
    /\ selectedFile = 2
    /\ requests = {2}
    /\ uploading
    /\ result = JsNull

\* C33: picking a video clears the result and the error before its upload starts; a
\* success sets the result of that video and leaves the error null, a failure sets the
\* error message and leaves the result null; the result on display is never the one of
\* a video picked earlier.
C33_ResultBelongsToSelectedVideo ==
    /\ videoOp.name = "picked" => (result = JsNull /\ error = JsNull)
    /\ videoOp.name = "success"
           => /\ result # JsNull
              /\ result.video = videoOp.video
              /\ error = JsNull
    /\ videoOp.name = "failure"
           => /\ result = JsNull
              /\ error # JsNull
              /\ error.tag = "string"
    /\ uploading => result = JsNull
    /\ result # JsNull => result.video = selectedFile

\* The upload of a second video has just failed: its error is shown and no result.
C33_Witness ==
    /\ videoOp.name = "failure"
    /\ videoOp.video = 2
    /\ selectedFile = 2
    /\ result = JsNull
    /\ error = Str("Network request failed")

\* The health texts that report the status as healthy.
ReportsHealthy(t) ==
    t \in { "Status: healthy, Model loaded: true", "Status: healthy, Model loaded: false" }

\* C34 (as claimed): for a 2xx answer of the Gradio health endpoint with a health text,
\* healthCheck returns status 'healthy' exactly when the text reports the status as
\* healthy, 'unhealthy' for every other non-empty text, and model_loaded true exactly
\* when the text contains 'Model loaded: true'.
C34_StatusFollowsHealthText ==
    \A t \in HealthTexts :
        (/\ appOp = "health"
         /\ backend = "gradio"
         /\ ~healthLast.failed
         /\ ResponseOk(healthLast.status)
         /\ healthLast.body = JsonBody(GradioResponse(<<Str(t)>>))
         /\ t # "")
        => /\ healthResult.tag = "returned"
           /\ healthResult.value.status = "healthy" <=> ReportsHealthy(t)
           /\ ~ReportsHealthy(t) => healthResult.value.status = "unhealthy"
           /\ healthResult.value.model_loaded = JsBool(TRUE)
                  <=> t \in { "Status: healthy, Model loaded: true",
                              "Status: unhealthy, Model loaded: true" }

\* The call of the Gradio variant met a 2xx response whose JSON body is an envelope
\* with no data list or an empty one.
NoDataItems ==
    /\ uploadIn.variant = "gradio"
    /\ uploadOut # NotCalled
    /\ ResponseOk(uploadIn.response.status)
    /\ uploadIn.response.body.json
    /\ uploadIn.response.body.value.tag = "object"
    /\ \/ ~uploadIn.response.body.value.hasData
       \/ Len(uploadIn.response.body.value.data) = 0

\* C36: in the Gradio variant a 2xx response whose data list is missing or empty makes
\* uploadVideo throw Error('Invalid response format from Gradio API'); it does not
\* return the 'Unknown' fallback result.
C36_NoDataIsInvalidFormat ==
    NoDataItems
    => /\ uploadOut.tag = "threw"
       /\ uploadOut.error = [name |-> "Error",
                             message |-> "Invalid response format from Gradio API"]

\* The call has answered a 200 response whose data list is empty.
C36_Witness ==
    /\ NoDataItems
    /\ uploadIn.response.status = 200
    /\ uploadIn.response.body.value = GradioResponse(<<>>)
    /\ uploadOut.tag = "threw"

\* The payload decodes and the try block of the handler raises while the decoded value
\* is dispatched: handleMessage raises, or the callback it invokes throws.
DispatchRaises(raw, thr) ==
    LET parsed == JsonParse(raw) IN
    /\ parsed.ok
    /\ \/ HandleMessage(parsed.value).threw
       \/ \E i \in DOMAIN HandleMessage(parsed.value).calls :
              HandleMessage(parsed.value).calls[i].cb \in thr

\* The payload decodes to a value that is not an object.
DecodesToNonObject(raw) == JsonParse(raw).ok /\ JsonParse(raw).value.tag # "object"

\* The last callback of a handler run is the report of the catch.
EndsWithParseFailure(cs) == Len(cs) > 0 /\ <<cs[Len(cs)]>> = ParseFailure

\* C35 (as claimed): when a callback throws while a decoded message is dispatched, or
\* the payload decodes to a non-object, the error callback is invoked with 'Failed to
\* parse server message', nothing propagates out of the message handler, and the
\* connection is not closed.
C35_DispatchFailureReported ==
    [][(/\ lastOp'.name = "message"
        /\ \/ DispatchRaises(lastOp'.data.body, throwing)
           \/ DecodesToNonObject(lastOp'.data.body))
       => /\ EndsWithParseFailure(fired')
          /\ ~lastOp'.threw
          /\ ws' = ws
          /\ sockets' = sockets]_vars

\* C35 (amended): an exception raised while a decoded message is dispatched (by
\* handleMessage on a payload that decodes to null, or by the consumer's callback) ends
\* in the error callback being invoked with 'Failed to parse server message', and it
\* leaves the handler exactly when the error callback itself throws; a payload that
\* decodes to a non-object other than null raises nothing and invokes no callback; no
\* inbound message changes this.ws or a socket.
C35_CaughtFailureReported ==
    [][lastOp'.name = "message"
       => /\ DispatchRaises(lastOp'.data.body, throwing)
               => /\ EndsWithParseFailure(fired')
                  /\ lastOp'.threw <=> "onError" \in throwing
          /\ (JsonParse(lastOp'.data.body).ok
                /\ ~DispatchRaises(lastOp'.data.body, throwing))
               => /\ ~lastOp'.threw
                  /\ \A i \in DOMAIN fired' : <<fired'[i]>> # ParseFailure
          /\ (DecodesToNonObject(lastOp'.data.body)
                /\ JsonParse(lastOp'.data.body).value # JsNull)
               => fired' = <<>>
          /\ ws' = ws
          /\ sockets' = sockets
          /\ IsConnected' = IsConnected]_vars

\* The prediction callback threw on a prediction message: the error callback was given
\* the report, nothing left the handler and the client is still connected.
C35_Witness ==
    /\ lastOp.name = "message"
    /\ lastOp.data.body = RawWalking
    /\ throwing = {"onPrediction"}
    /\ fired = <<Call("onPrediction", Walking)>> \o ParseFailure
    /\ ~lastOp.threw
    /\ IsConnected

\* The scheme of the streaming URL for the scheme of a base URL.
WsScheme(scheme) == IF scheme = HttpScheme THEN "ws://" ELSE "wss://"

\* C37 (as claimed): getWebSocketUrl returns the base URL with its scheme http replaced
\* by ws, or https by wss, and '/ws/frames' appended; host, port and path are those of
\* the base URL.
C37_SchemeReplacedRestUnchanged ==
    webSocketUrl # NotCalled
    => webSocketUrl.value = <<WsScheme(Head(baseUrl))>> \o Tail(baseUrl) \o <<"/ws/frames">>

============================================================================
